---- MODULE Spec2Model ----
(***************************************************************************)
(* Streaming agent-CLI supervisor (src-tauri/src/chat).                    *)
(*                                                                         *)
(* The module holds nine parts:                                            *)
(*   - the NDJSON tailer (chat/tail.rs), at byte level;                    *)
(*   - the item folder, live (chat/codex.rs) and replay (chat/run_log.rs); *)
(*   - the detached and the interactive supervisor loops (chat/codex.rs),  *)
(*     which run the folder on their locals;                               *)
(*   - the argument builders (chat/codex.rs, codex_cli/run.rs);            *)
(*   - the run log store: the runs of the session metadata                 *)
(*     (chat/run_log.rs);                                                  *)
(*   - message loading: the messages rebuilt from the metadata and the     *)
(*     stored run logs (chat/run_log.rs);                                  *)
(*   - the process registry under several supervisors (chat/codex.rs);     *)
(*   - the metadata operations as reads and writes that interleave         *)
(*     (chat/run_log.rs);                                                  *)
(*   - the metadata of one session with its resume tokens, under the       *)
(*     operations of its writers (chat/run_log.rs).                        *)
(* Each specification moves the variables of one part and leaves the       *)
(* others at their initial value.                                          *)
(***************************************************************************)
EXTENDS Integers, Sequences, FiniteSets, TLC

(***************************************************************************)
(* ----------------------------  NDJSON tailer  -------------------------- *)
(* Bytes of the tailed file.  "a" is an ASCII letter, SP a space, NL and   *)
(* CR the line terminators, "L" the lead byte and "C" the continuation     *)
(* byte of a two-byte UTF-8 character.                                     *)
(***************************************************************************)
NL == "NL"
CR == "CR"
SP == "SP"
Bytes == {"a", SP, NL, CR, "L", "C"}

\* The bytes the writer uses once the file is also truncated and replaced.
RewriteBytes == {"a", NL, CR}

\* Most bytes the writer appends in one behaviour.
MaxWritten == 5

\* MAX_INCOMPLETE_LINE_BYTES (2 MiB in the source), scaled so that the writer
\* of the model can exceed it.
MAX_INCOMPLETE_LINE_BYTES == 3

\* Most truncations and replacements of the file in one behaviour.
MaxRewrites == 1

\* Size of the prefix fingerprint (64 bytes in the source), scaled likewise.
FINGERPRINT_BYTES == 2

VARIABLES
    file,          \* bytes of the file currently at `path`
    held,          \* bytes of the unlinked file the reader still has open
    linked,        \* TRUE when the reader's handle is the file at `path`
    rewrites,      \* number of truncations and replacements so far
    written,       \* number of bytes appended so far
    tState,        \* "none" before construction, then "start" or "end"
    tFingerprint,  \* NdjsonTailer.fingerprint
    tPos,          \* NdjsonTailer.reader: stream position
    tBuffer,       \* NdjsonTailer.buffer
    tRes,          \* history: the last operation and, for poll() and
                   \* flush_buffer(), its result
    tEmitted,      \* history: the lines returned by the polls of a file
                   \* that was only appended to
    tFailed,       \* history: some poll() returned Err
    tFlushed       \* history: some flush_buffer() found data in the buffer

tailVars == <<file, held, linked, rewrites, written, tState, tFingerprint, tPos, tBuffer,
              tRes, tEmitted, tFailed, tFlushed>>

\* The item folder: the locals that tail_codex_output and
\* execute_codex_interactive hand to handle_codex_item_event.
VARIABLES
    full_content,        \* String
    tool_calls,          \* Vec<ToolCall>
    content_blocks,      \* Vec<ContentBlock>
    agent_message_seen,  \* HashMap<String, String>
    reasoning_seen,      \* HashMap<String, String>
    todo_list_seen,      \* HashMap<String, String>
    todo_list_seq,       \* HashMap<String, usize>
    ui,                  \* history: the UI events emitted (app.emit), in order
    items,               \* history: the thread items folded so far
    runText              \* history: per agent_message id, the chunks emitted
                         \* since its text last failed to extend the text seen

foldVars == <<full_content, tool_calls, content_blocks, agent_message_seen,
              reasoning_seen, todo_list_seen, todo_list_seq, ui, items,
              runText>>

\* The supervisors: the run log, the child, the registry, and the locals of
\* tail_codex_output and execute_codex_interactive next to the folder's.
VARIABLES
    mode,                  \* "detached" or "interactive", "none" without supervisor
    phase,                 \* "loop", then "ok" or "err" once the supervisor returned
    log,                   \* the complete lines of the run log, in file order
    logTail,               \* Option: an unterminated last line of the run log
    childAlive,            \* is_process_alive(pid)
    running,               \* registry::is_process_running(session_id)
    polled,                \* the lines of log the tailer has returned
    processed,             \* history: the lines of log the loop has gone through
    completed,             \* bool (detached)
    cancelled,             \* bool
    received_codex_output, \* bool (detached)
    finished,              \* bool (interactive)
    pending,               \* Option: the unterminated text read from the PTY
    awaiting_approval,     \* bool (interactive)
    last_command,          \* Option<(String, String)> (interactive)
    writerRegistered,      \* session_id is in CODEX_PTY_WRITERS
    diskFull,              \* writes to the run log fail
    reads,                 \* history: the chunks read from the PTY
    approvals,             \* history: since the last parsed event, the prompts
                           \* matched and the denials emitted (up to 2 each)
    lastIteration          \* history: when the last step was an iteration of
                           \* the loop of tail_codex_output, what it found on
                           \* its two clocks and, on failure, in the stderr log;
                           \* after a read of the PTY, whether the lines read
                           \* were all lines that start with '{' and do not
                           \* decode, and whether all carried the sentinel key

supVars == <<mode, phase, log, logTail, childAlive, running, polled, processed,
             completed, cancelled, received_codex_output, finished, pending,
             awaiting_approval, last_command, writerRegistered, diskFull,
             reads, approvals, lastIteration>>

\* The argument builders: the inputs of one call and what it returned.
VARIABLES
    call,      \* the arguments of the call
    built,     \* "none" before the call, then the builder that was called
    args,      \* Vec<String>: the argv returned
    env_vars   \* Vec<(String, String)>: the environment returned

argVars == <<call, built, args, env_vars>>

\* The run log store: the session metadata on disk and what lives around it.
VARIABLES
    metadata,  \* per session, SessionMetadata.runs: Vec<RunEntry>
    writers,   \* the RunLogWriter values the app holds
    alive,     \* the PIDs for which is_process_alive holds
    rOp        \* history: whether the last operation was
               \* recover_incomplete_runs, and what it returned

runVars == <<metadata, writers, alive, rOp>>

\* Message loading: what the last load_session_messages read and returned.
VARIABLES
    loaded     \* history: None before the first call, then the session, the
               \* runs and the lines of each run that the last call read,
               \* and the messages it returned

loadVars == <<loaded>>

\* The process registry and the supervisors that register in it.
VARIABLES
    registry,     \* per session id, Option: the PID registered
    supervisors   \* per run: its session and PID, where its supervisor is,
                  \* and history: how it left its loop, whether its PID was
                  \* removed by a cancel, what it observed afterwards

regVars == <<registry, supervisors>>

\* The metadata operations that read and write in separate steps.
VARIABLES
    inflight,  \* the operations between their load_metadata and their
               \* save_metadata: the session and what they read
    saved      \* history: None, or the last save_metadata of such an
               \* operation: the operation, the statuses of the runs it
               \* wrote over and of the runs it wrote, and whether it wrote
               \* what the operation makes of the metadata it wrote over

raceVars == <<inflight, saved>>

\* The metadata of one session in full, under its writers.
VARIABLES
    sessionMetadata,  \* the runs of the session and its two resume tokens
    returned          \* history: the last call of a writer and its result

writerVars == <<sessionMetadata, returned>>

vars == <<tailVars, foldVars, supVars, argVars, runVars, loadVars, regVars,
          raceVars, writerVars>>

\* What each part leaves alone.
outsideTail ==
    <<foldVars, supVars, argVars, runVars, loadVars, regVars, raceVars,
      writerVars>>
outsideFold ==
    <<tailVars, supVars, argVars, runVars, loadVars, regVars, raceVars,
      writerVars>>
outsideSupervisors ==
    <<tailVars, argVars, runVars, loadVars, regVars, raceVars, writerVars>>
outsideArgs ==
    <<tailVars, foldVars, supVars, runVars, loadVars, regVars, raceVars,
      writerVars>>
outsideRuns ==
    <<tailVars, foldVars, supVars, argVars, loadVars, regVars, raceVars,
      writerVars>>
outsideLoad ==
    <<tailVars, foldVars, supVars, argVars, regVars, raceVars, writerVars>>
outsideRegistry ==
    <<tailVars, foldVars, supVars, argVars, runVars, loadVars, raceVars,
      writerVars>>
outsideRaces ==
    <<tailVars, foldVars, supVars, argVars, loadVars, regVars, writerVars>>
outsideWriter ==
    <<tailVars, foldVars, supVars, argVars, runVars, loadVars, regVars,
      raceVars>>

\* Option<T>: None is the empty sequence, Some(x) the sequence <<x>>.
None == <<>>
Some(x) == <<x>>

Min(a, b) == IF a < b THEN a ELSE b

\* char::is_whitespace, over the characters of strings
IsWhitespace(ch) == ch \in {" ", "\t", "\n", "\r"}

\* str::trim_start, str::trim_end, str::trim
RECURSIVE TrimStart(_)
TrimStart(str) ==
    IF Len(str) > 0 /\ IsWhitespace(SubSeq(str, 1, 1))
    THEN TrimStart(SubSeq(str, 2, Len(str)))
    ELSE str

RECURSIVE TrimEnd(_)
TrimEnd(str) ==
    IF Len(str) > 0 /\ IsWhitespace(SubSeq(str, Len(str), Len(str)))
    THEN TrimEnd(SubSeq(str, 1, Len(str) - 1))
    ELSE str

Trim(str) == TrimStart(TrimEnd(str))

Last(s) == s[Len(s)]

\* The file behind the reader's handle (File::metadata and reads go there).
ReaderFile == IF linked THEN file ELSE held

\* read_fingerprint: the first (up to) 64 bytes of the file at `path`.
ReadFingerprint(f) == SubSeq(f, 1, Min(Len(f), FINGERPRINT_BYTES))

\* str::from_utf8 on the bytes of one read_line call: every lead byte is
\* followed by a continuation byte and every continuation byte follows a lead.
Utf8Valid(s) ==
    \A i \in 1..Len(s) :
        /\ s[i] = "L" => (i < Len(s) /\ s[i + 1] = "C")
        /\ s[i] = "C" => (i > 1 /\ s[i - 1] = "L")

\* BufRead::read_line from offset pos: the bytes up to and including the next
\* newline, or up to end of file; the empty sequence is Ok(0).
ReadLine(f, pos) ==
    IF pos >= Len(f) THEN <<>>
    ELSE LET nls == {i \in (pos + 1)..Len(f) : f[i] = NL}
             stop == IF nls = {} THEN Len(f)
                     ELSE CHOOSE i \in nls : \A j \in nls : i <= j
         IN SubSeq(f, pos + 1, stop)

\* A trim that takes one trailing newline and leaves carriage returns.
TrimEndNewline(s) ==
    IF s # <<>> /\ Last(s) = NL THEN SubSeq(s, 1, Len(s) - 1) ELSE s

\* str::trim_end_matches(['\n', '\r'])
RECURSIVE TrimEndMatches(_)
TrimEndMatches(s) ==
    IF s # <<>> /\ Last(s) \in {NL, CR}
    THEN TrimEndMatches(SubSeq(s, 1, Len(s) - 1))
    ELSE s

\* Byte offsets (0-based) at which a character of a valid string starts.
CharIndices(s) == {i \in 0..(Len(s) - 1) : s[i + 1] # "C"}

LenUtf8(b) == IF b = "L" THEN 2 ELSE 1

\* The cut of the unbounded line guard: the end of the last character that
\* starts before the cap (char_indices().take_while(i < cap).last()).
GuardCut(s) ==
    LET before == {i \in CharIndices(s) : i < MAX_INCOMPLETE_LINE_BYTES}
    IN IF before = {} THEN 0
       ELSE LET i == CHOOSE k \in before : \A j \in before : j <= k
            IN i + LenUtf8(s[i + 1])

\* One round of the inner read loop of poll() from state st, a value, and
\* the rounds after it.
RECURSIVE ReadLoop(_, _)
ReadRound(f, st) ==
    LET line == ReadLine(f, st.pos) IN
    IF line = <<>> THEN st
    ELSE IF ~Utf8Valid(line)
    THEN [st EXCEPT !.ok = FALSE, !.pos = st.pos + Len(line), !.lines = <<>>]
    ELSE LET b == st.buffer \o line
             p == st.pos + Len(line)
         IN IF Len(b) > MAX_INCOMPLETE_LINE_BYTES
            THEN ReadLoop(f, [st EXCEPT !.pos = p, !.buffer = <<>>,
                     !.lines = Append(st.lines, SubSeq(b, 1, GuardCut(b)))])
            ELSE IF Last(b) = NL
            THEN ReadLoop(f, [st EXCEPT !.pos = p, !.buffer = <<>>,
                     !.lines = Append(st.lines, TrimEndMatches(b))])
            ELSE ReadLoop(f, [st EXCEPT !.pos = p, !.buffer = b])

\* The inner read loop of poll(): read_line until EOF.  st is
\* [ok, pos, buffer, lines]; an invalid read consumes its bytes, leaves the
\* buffer as it is and makes poll() return Err (the lines vector is dropped).
\* (The state is bound through a singleton set so that it is computed once.)
ReadLoop(f, st) == CHOOSE out \in {ReadRound(f, v) : v \in {st}} : TRUE

\* A reopen that keeps the partial-line buffer.
ReopenKeepBuffer(t) ==
    [t EXCEPT !.fp = ReadFingerprint(file), !.lk = TRUE, !.pos = 0]

\* reopen_from_start, on the tailer record t = [fp, lk, pos, buffer]:
\* fingerprint re-read, a new reader on `path` at offset 0, buffer cleared.
ReopenFromStart(t) ==
    [t EXCEPT !.fp = ReadFingerprint(file), !.lk = TRUE, !.pos = 0,
              !.buffer = <<>>]

\* The file behind the handle of tailer record t.
FileOf(t) == IF t.lk THEN file ELSE held

\* One pass of the outer loop of poll() after the truncation check.
PollPass(t) ==
    ReadLoop(FileOf(t), [ok |-> TRUE, pos |-> t.pos, buffer |-> t.buffer,
                         lines |-> <<>>])

\* The end of poll(): the position and the buffer the last pass left, and
\* the fingerprint refresh when lines were read.
PollEnd(t3, trunc, repl, fp, r2) ==
    LET t4 == [t3 EXCEPT !.pos = r2.pos, !.buffer = r2.buffer]
        t5 == IF r2.ok /\ r2.lines # <<>> THEN [t4 EXCEPT !.fp = fp] ELSE t4
    IN [ok |-> r2.ok, lines |-> r2.lines, t |-> t5, truncated |-> trunc,
        replaced |-> repl]

\* A poll() without the replacement check: it ends after its first pass.
PollAfterPassNoRetry(t1, trunc, r1) ==
    PollEnd([t1 EXCEPT !.pos = r1.pos, !.buffer = r1.buffer], trunc, FALSE,
            ReadFingerprint(file), r1)

\* poll() after its first pass r1: the replacement check and, when the file
\* was replaced, the reopen and the second pass.
PollAfterPass(t1, trunc, r1) ==
    LET t2 == [t1 EXCEPT !.pos = r1.pos, !.buffer = r1.buffer]
        fp == ReadFingerprint(file)
        repl == /\ r1.ok
                /\ ~trunc
                /\ r1.lines = <<>>
                /\ t2.buffer = <<>>
                /\ Len(t2.fp) = FINGERPRINT_BYTES
                /\ t2.pos = Len(FileOf(t2))
                /\ t2.pos > 0
                /\ Len(fp) = FINGERPRINT_BYTES
                /\ fp # t2.fp
        t3 == IF repl THEN ReopenFromStart(t2) ELSE t2
    IN CHOOSE o \in {PollEnd(t3, trunc, repl, fp, r2) :
                        r2 \in {IF repl THEN PollPass(t3) ELSE r1}} : TRUE

\* poll(): truncation check, read loop, replacement check (retry once),
\* fingerprint refresh.  Yields [ok, lines, t, truncated, replaced].
PollOutcome ==
    LET t0 == [fp |-> tFingerprint, lk |-> linked, pos |-> tPos,
               buffer |-> tBuffer]
        trunc == Len(FileOf(t0)) < t0.pos
        t1 == IF trunc THEN ReopenFromStart(t0) ELSE t0
    IN CHOOSE o \in {PollAfterPass(t1, trunc, r1) : r1 \in {PollPass(t1)}} :
           TRUE

\* flush_buffer(): the buffered data without trailing CR/LF, None when the
\* buffer is empty or holds only whitespace; the buffer is cleared.
IsBlank(s) == \A i \in 1..Len(s) : s[i] \in {SP, NL, CR}

\* A flush that hands the buffer out untrimmed.
FlushUntrimmed == IF tBuffer = <<>> THEN None ELSE Some(tBuffer)

\* A flush that also hands out a line of whitespace.
FlushBlankToo ==
    IF tBuffer = <<>> THEN None ELSE Some(TrimEndMatches(tBuffer))

FlushOutcome ==
    IF tBuffer = <<>> THEN None
    ELSE LET line == TrimEndMatches(tBuffer)
         IN IF IsBlank(line) THEN None ELSE Some(line)

\* has_incomplete_data()
HasIncompleteData == tBuffer # <<>>

\* The history record of an operation that returns nothing.
NoResult(op) ==
    [op |-> op, ok |-> TRUE, lines |-> <<>>, truncated |-> FALSE,
     replaced |-> FALSE, flushed |-> None, first |-> FALSE]

InitTail ==
    /\ file = <<>>
    /\ held = <<>>
    /\ linked = TRUE
    /\ rewrites = 0
    /\ written = 0
    /\ tState = "none"
    /\ tFingerprint = <<>>
    /\ tPos = 0
    /\ tBuffer = <<>>
    /\ tRes = NoResult("init")
    /\ tEmitted = <<>>
    /\ tFailed = FALSE
    /\ tFlushed = FALSE

tailerFields ==
    <<tState, tFingerprint, tPos, tBuffer, tEmitted, tFailed, tFlushed>>

\* The writer appends one byte; the file stays a prefix of valid UTF-8 text
\* (a lead byte is followed by its continuation byte).
TAppend(B) ==
    /\ written < MaxWritten
    /\ written' = written + 1
    /\ \E b \in B :
        /\ (file # <<>> /\ Last(file) = "L") => b = "C"
        /\ (b = "C") => (file # <<>> /\ Last(file) = "L")
        /\ file' = Append(file, b)
    /\ tRes' = NoResult("append")
    /\ UNCHANGED <<held, linked, rewrites, tailerFields>>
    /\ UNCHANGED outsideTail

\* The file at `path` is truncated in place (File::set_len).
TTruncate ==
    /\ rewrites < MaxRewrites
    /\ rewrites' = rewrites + 1
    /\ \E k \in 0..(Len(file) - 1) : file' = SubSeq(file, 1, k)
    /\ tRes' = NoResult("truncate")
    /\ UNCHANGED <<held, linked, written, tailerFields>>
    /\ UNCHANGED outsideTail

\* The file at `path` is replaced by a new, empty file (rename over it); a
\* reader that had it open keeps the old bytes.
TReplace ==
    /\ rewrites < MaxRewrites
    /\ rewrites' = rewrites + 1
    /\ tState # "none"
    /\ linked
    /\ file # <<>>
    /\ held' = file
    /\ linked' = FALSE
    /\ file' = <<>>
    /\ tRes' = NoResult("replace")
    /\ UNCHANGED <<written, tailerFields>>
    /\ UNCHANGED outsideTail

\* NdjsonTailer::new_from_start
TNewFromStart ==
    /\ tState = "none"
    /\ tState' = "start"
    /\ tFingerprint' = ReadFingerprint(file)
    /\ tPos' = 0
    /\ tBuffer' = <<>>
    /\ tRes' = NoResult("new")
    /\ UNCHANGED <<file, held, linked, rewrites, written, tEmitted, tFailed,
                   tFlushed>>
    /\ UNCHANGED outsideTail

\* NdjsonTailer::new_at_end
TNewAtEnd ==
    /\ tState = "none"
    /\ tState' = "end"
    /\ tFingerprint' = ReadFingerprint(file)
    /\ tPos' = Len(file)
    /\ tBuffer' = <<>>
    /\ tRes' = NoResult("new")
    /\ UNCHANGED <<file, held, linked, rewrites, written, tEmitted, tFailed,
                   tFlushed>>
    /\ UNCHANGED outsideTail

\* NdjsonTailer::poll
TPoll ==
    /\ tState # "none"
    /\ \E o \in {PollOutcome} :
        /\ tFingerprint' = o.t.fp
        /\ linked' = o.t.lk
        /\ tPos' = o.t.pos
        /\ tBuffer' = o.t.buffer
        /\ tRes' = [op |-> "poll", ok |-> o.ok, lines |-> o.lines,
                    truncated |-> o.truncated, replaced |-> o.replaced,
                    flushed |-> None, first |-> FALSE]
        /\ tEmitted' = IF rewrites = 0 THEN tEmitted \o o.lines ELSE <<>>
        /\ tFailed' = (tFailed \/ ~o.ok)
    /\ UNCHANGED <<file, held, rewrites, written, tState, tFlushed>>
    /\ UNCHANGED outsideTail

\* NdjsonTailer::flush_buffer
TFlush ==
    /\ tState # "none"
    /\ tRes' = [NoResult("flush") EXCEPT !.flushed = FlushOutcome,
                                         !.first = ~tFlushed]
    /\ tBuffer' = <<>>
    /\ tFlushed' = (tFlushed \/ tBuffer # <<>>)
    /\ UNCHANGED <<file, held, linked, rewrites, written, tState,
                   tFingerprint, tPos, tEmitted, tFailed>>
    /\ UNCHANGED outsideTail

(***************************************************************************)
(* What the file holds, stated without the tailer: its segments between    *)
(* newlines, the last one being the unterminated tail.                     *)
(***************************************************************************)
RECURSIVE Segments(_)
Segments(f) ==
    IF \A i \in 1..Len(f) : f[i] # NL THEN <<f>>
    ELSE LET n == CHOOSE i \in 1..Len(f) :
                      f[i] = NL /\ \A j \in 1..(i - 1) : f[j] # NL
         IN <<SubSeq(f, 1, n - 1)>> \o Segments(SubSeq(f, n + 1, Len(f)))

RECURSIVE StripCR(_)
StripCR(s) ==
    IF s # <<>> /\ Last(s) = CR THEN StripCR(SubSeq(s, 1, Len(s) - 1)) ELSE s

\* The newline-terminated lines of f, without terminator and trailing CR.
CompleteLines(f) ==
    [i \in 1..(Len(Segments(f)) - 1) |-> StripCR(Segments(f)[i])]

\* The bytes after the last newline of f.
TailOf(f) == Last(Segments(f))

\* No line of f, its newline included, is longer than the cap.
WithinCap(f) ==
    LET sg == Segments(f) IN
    /\ \A i \in 1..(Len(sg) - 1) : Len(sg[i]) + 1 <= MAX_INCOMPLETE_LINE_BYTES
    /\ Len(sg[Len(sg)]) <= MAX_INCOMPLETE_LINE_BYTES

\* Lines joined with a newline between them.
RECURSIVE JoinLines(_)
JoinLines(ls) ==
    IF ls = <<>> THEN <<>>
    ELSE IF Len(ls) = 1 THEN ls[1]
    ELSE ls[1] \o <<NL>> \o JoinLines(Tail(ls))

\* f with its trailing newline normalized (one final newline removed).
NormalizeTrailingNewline(f) ==
    IF f # <<>> /\ Last(f) = NL THEN SubSeq(f, 1, Len(f) - 1) ELSE f

\* The lines of f as a reader that drops the trailing CRs of each line and a
\* whitespace-only unterminated tail sees them.
TextLines(f) ==
    CompleteLines(f)
        \o (IF IsBlank(StripCR(TailOf(f))) THEN <<>>
            ELSE <<StripCR(TailOf(f))>>)

\* What the polls and the flush of the last step returned, as one text.
TailerOutput ==
    JoinLines(tEmitted \o tRes.flushed)

\* A first, final flush_buffer() after polls that read the whole file.
FinalFlush ==
    /\ tState = "start"
    /\ tRes.op = "flush"
    /\ tRes.first
    /\ tPos = Len(file)
    /\ ~tFailed

\* new_from_start tailer, no failed poll, no data taken out by flush_buffer.
PollOnly == tState = "start" /\ ~tFailed /\ ~tFlushed

FromStart(f) ==
    ReadLoop(f, [ok |-> TRUE, pos |-> 0, buffer |-> <<>>, lines |-> <<>>])

\* C10: a poll that finds the file shorter than the read position reopens
\* it, drops the buffer and returns the complete lines of the current
\* content, read from offset zero.
C10_Truncation ==
    [][(tState # "none" /\ tRes'.op = "poll" /\ Len(ReaderFile) < tPos)
        => /\ tRes'.truncated
           /\ linked'
           /\ tRes'.ok =>
                /\ tRes'.lines = FromStart(file').lines
                /\ tBuffer' = FromStart(file').buffer
                /\ tPos' = Len(file')
                /\ WithinCap(file') =>
                     /\ tRes'.lines = CompleteLines(file')
                     /\ tBuffer' = TailOf(file')]_vars

\* Two lines written and polled, the file cut to length 0, one line written:
\* the poll returned exactly that line.
C10_Witness ==
    /\ tState = "start"
    /\ tRes.op = "poll"
    /\ tRes.truncated
    /\ tRes.ok
    /\ file = <<"a", NL>>
    /\ tRes.lines = <<(<<"a">>)>>
    /\ written = 5


\* The bytes behind the reader's handle that it has not read yet.
Unread == SubSeq(ReaderFile, tPos + 1, Len(ReaderFile))

\* A poll now reads no line: no newline is left to read and the buffered
\* line stays within the cap.
NoNewLine ==
    /\ tPos <= Len(ReaderFile)
    /\ \A i \in 1..Len(Unread) : Unread[i] # NL
    /\ Len(tBuffer \o Unread) <= MAX_INCOMPLETE_LINE_BYTES

\* The poll of this step reopened the file and returned what the current
\* content yields from offset zero.
ReturnsNewContent ==
    /\ tRes'.replaced
    /\ linked'
    /\ tRes'.ok =>
         /\ tRes'.lines = FromStart(file).lines
         /\ tBuffer' = FromStart(file).buffer
         /\ tPos' = Len(file)
         /\ tFingerprint' = ReadFingerprint(file)
         /\ WithinCap(file) => tRes'.lines = CompleteLines(file)

\* C11 as stated: a poll that reads no new line while the prefix fingerprint
\* on disk differs from the stored one reopens the file and returns the
\* complete lines of the new content, whatever the length of the files.
C11_Replacement ==
    [][(tState # "none" /\ tRes'.op = "poll" /\ NoNewLine
            /\ ReadFingerprint(file) # tFingerprint)
        => ReturnsNewContent]_vars

\* The replacement the code detects: nothing buffered, the reader at the end
\* of a non-empty file, and two differing fingerprints of full length.
FullFingerprintsDiffer ==
    /\ tBuffer = <<>>
    /\ tPos = Len(ReaderFile)
    /\ tPos > 0
    /\ Len(tFingerprint) = FINGERPRINT_BYTES
    /\ Len(ReadFingerprint(file)) = FINGERPRINT_BYTES
    /\ ReadFingerprint(file) # tFingerprint

\* C11 amended: a poll reopens the file as replaced exactly when it reads
\* nothing, buffers nothing, stands at the end of a non-empty file and the
\* stored and the on-disk fingerprint both have full length and differ; it
\* then returns the complete lines of the new content from offset zero.
\* Otherwise a poll that reads no line returns none and keeps its handle.
C11_ReplacementFullFingerprint ==
    [][(tState # "none" /\ tRes'.op = "poll")
        => /\ tRes'.replaced <=> FullFingerprintsDiffer
           /\ FullFingerprintsDiffer => ReturnsNewContent
           /\ (NoNewLine /\ ~FullFingerprintsDiffer)
                => /\ tRes'.lines = <<>>
                   /\ linked' = linked
                   /\ tPos' = Len(ReaderFile)]_vars

\* A line polled, the file replaced by one holding two other lines: the
\* next poll returned those two lines.
C11_Witness ==
    /\ tState = "start"
    /\ tRes.op = "poll"
    /\ tRes.replaced
    /\ tRes.ok
    /\ held = <<"a", NL>>
    /\ file = <<NL, CR, NL>>
    /\ tRes.lines = <<(<<>>), (<<>>)>>
    /\ linked


\* C12 as stated: every line a poll returns, the one the unbounded line
\* guard cuts from an over-long buffer included, ends on a character
\* boundary and is at most MAX_INCOMPLETE_LINE_BYTES long, and the buffer
\* never holds more than MAX_INCOMPLETE_LINE_BYTES.
C12_GuardWithinCap ==
    /\ Len(tBuffer) <= MAX_INCOMPLETE_LINE_BYTES
    /\ (tRes.op = "poll" /\ tRes.ok)
         => \A i \in 1..Len(tRes.lines) :
                /\ Utf8Valid(tRes.lines[i])
                /\ Len(tRes.lines[i]) <= MAX_INCOMPLETE_LINE_BYTES

\* C12, what the guard does keep: the line ends on a character boundary and
\* overshoots the cap by less than one character; the buffer is within the
\* cap.
C12_GuardOvershootsByLessThanOneChar ==
    /\ Len(tBuffer) <= MAX_INCOMPLETE_LINE_BYTES
    /\ (tRes.op = "poll" /\ tRes.ok)
         => \A i \in 1..Len(tRes.lines) :
                /\ Utf8Valid(tRes.lines[i])
                /\ Len(tRes.lines[i])
                      <= MAX_INCOMPLETE_LINE_BYTES + LenUtf8("L") - 1

\* An unterminated line of two one-byte characters and a two-byte character
\* that starts on the last byte before the cap: the poll returned all of it,
\* one byte more than the cap.
C12_Witness ==
    /\ tState = "start"
    /\ tRes.op = "poll"
    /\ tRes.ok
    /\ file = <<"a", "a", "L", "C">>
    /\ tRes.lines = <<file>>
    /\ Len(tRes.lines[1]) > MAX_INCOMPLETE_LINE_BYTES
    /\ tBuffer = <<>>


\* s without the carriage returns and newlines it ends with.
WithoutTrailingCRLF(s) ==
    LET keep == {k \in 1..Len(s) : s[k] \notin {CR, NL}}
    IN IF keep = {} THEN <<>>
       ELSE SubSeq(s, 1, CHOOSE k \in keep : \A j \in keep : j <= k)

\* What flush_buffer() leaves behind, whatever it returns: an empty buffer,
\* has_incomplete_data() false, and nothing for a flush that follows at once.
FlushLeavesNothing ==
    /\ tBuffer' = <<>>
    /\ ~HasIncompleteData'
    /\ tRes.op = "flush" => tRes'.flushed = None

MaxItems == 3

EmptyMap == [k \in {} |-> <<>>]

MapPut(m, k, v) == [x \in DOMAIN m \cup {k} |-> IF x = k THEN v ELSE m[x]]

\* HashMap::entry(k).or_default() / get(k) with a default.
MapGet(m, k, default) == IF k \in DOMAIN m THEN m[k] ELSE default

\* str::starts_with
StartsWith(t, p) == Len(p) <= Len(t) /\ SubSeq(t, 1, Len(p)) = p

\* &new_text[prev.len()..]
Suffix(t, n) == SubSeq(t, n + 1, Len(t))

\* serde_json::to_string and to_string_pretty: injective renderings.
ToJsonString(v) == <<"json", v>>
ToJsonStringPretty(v) == <<"pretty", v>>

\* format!("{}:{}", id, n)
SyntheticId(id, n) == id \o ":" \o ToString(n)

\* format!("status: {}", status), format!("error: {}", message),
\* format!("MCP:{}:{}", server, tool)
StatusOutput(status) == "status: " \o status
ErrorOutput(message) == "error: " \o message
McpToolName(server, tool) == "MCP:" \o server \o ":" \o tool

\* The UI events; `of` is a history annotation (the item the event came
\* from), the payload of the source carries session and worktree ids instead.
ChunkEvent(content, of) ==
    [ev |-> "chat:chunk", content |-> content, of |-> of]
ThinkingEvent(content, of) ==
    [ev |-> "chat:thinking", content |-> content, of |-> of]
ToolUseEvent(id, name, input) ==
    [ev |-> "chat:tool_use", id |-> id, name |-> name, input |-> input]
ToolBlockEvent(id) == [ev |-> "chat:tool_block", tool_call_id |-> id]
ToolResultEvent(id, output) ==
    [ev |-> "chat:tool_result", tool_use_id |-> id, output |-> output]
ErrorEvent(error) == [ev |-> "chat:error", error |-> error]
DoneEvent == [ev |-> "chat:done"]
PermissionDeniedEvent(id, command) ==
    [ev |-> "chat:permission_denied", tool_use_id |-> id, command |-> command]

TextBlock(t) == [type |-> "text", text |-> t]
ThinkingBlock(t) == [type |-> "thinking", thinking |-> t]
ToolUseBlock(id) == [type |-> "tool_use", tool_call_id |-> id]

ToolCall(id, name, input) ==
    [id |-> id, name |-> name, input |-> input, output |-> None,
     parent_tool_use_id |-> None]

\* The folder state of a run before its first item.
NewFolder ==
    [full_content |-> <<>>, tool_calls |-> <<>>, content_blocks |-> <<>>,
     agent_message_seen |-> EmptyMap, reasoning_seen |-> EmptyMap,
     todo_list_seen |-> EmptyMap, todo_list_seq |-> EmptyMap]

HasTool(calls, id) == \E i \in 1..Len(calls) : calls[i].id = id

\* tool_calls.iter_mut().find(|t| t.id == id): tc.output = Some(output)
SetOutput(calls, id, output) ==
    IF ~HasTool(calls, id) THEN calls
    ELSE LET k == CHOOSE i \in 1..Len(calls) :
                      calls[i].id = id /\ \A j \in 1..(i - 1) : calls[j].id # id
         IN [calls EXCEPT ![k].output = Some(output)]

\* An ensure_tool_call without the early return.
EnsureToolCallAgain(r, id, name, input) ==
    [st |-> [r.st EXCEPT
                !.tool_calls = Append(@, ToolCall(id, name, input)),
                !.content_blocks = Append(@, ToolUseBlock(id))],
     ui |-> r.ui \o <<ToolUseEvent(id, name, input), ToolBlockEvent(id)>>]

\* ensure_tool_call (codex.rs), on r = [st, ui]
EnsureToolCall(r, id, name, input) ==
    IF HasTool(r.st.tool_calls, id) THEN r
    ELSE [st |-> [r.st EXCEPT
                    !.tool_calls = Append(@, ToolCall(id, name, input)),
                    !.content_blocks = Append(@, ToolUseBlock(id))],
          ui |-> r.ui \o <<ToolUseEvent(id, name, input), ToolBlockEvent(id)>>]

\* An update_tool_output that puts its event ahead of the earlier ones.
UpdateToolOutputEarly(r, id, output) ==
    [st |-> [r.st EXCEPT !.tool_calls = SetOutput(@, id, output)],
     ui |-> <<ToolResultEvent(id, output)>> \o r.ui]

\* update_tool_output (codex.rs), on r = [st, ui]
UpdateToolOutput(r, id, output) ==
    [st |-> [r.st EXCEPT !.tool_calls = SetOutput(@, id, output)],
     ui |-> Append(r.ui, ToolResultEvent(id, output))]

\* A mapping of the todo items that leaves their completion out.
MapTodosPending(todos) ==
    [todos |-> [i \in 1..Len(todos) |->
        [content |-> todos[i].text, activeForm |-> todos[i].text,
         status |-> "pending"]]]

\* The todo items mapped to the TodoWrite input.
MapTodos(todos) ==
    [todos |-> [i \in 1..Len(todos) |->
        [content |-> todos[i].text, activeForm |-> todos[i].text,
         status |-> IF todos[i].completed THEN "completed" ELSE "pending"]]]

\* The input of the Edit tool of one change.
EditInput(c) == [file_path |-> c.path, kind |-> c.kind]

\* The loop over the changes of a file_change with two changes or more.
RECURSIVE FileChangeEach(_, _, _)
FileChangeEach(r, fc, idx) ==
    IF idx >= Len(fc.changes) THEN r
    ELSE LET tool_id == SyntheticId(fc.id, idx)
             r1 == EnsureToolCall(r, tool_id, "Edit",
                                  EditInput(fc.changes[idx + 1]))
             r2 == UpdateToolOutput(r1, tool_id, StatusOutput(fc.status))
         IN FileChangeEach(r2, fc, idx + 1)

\* A delta without the fallback: a text that does not extend the text seen
\* pushes nothing.
TextDeltaNoFallback(prev, new_text) ==
    IF StartsWith(new_text, prev) THEN Suffix(new_text, Len(prev)) ELSE <<>>

\* A delta that is always the whole text.
TextDeltaWhole(prev, new_text) == new_text

\* The agent_message and reasoning arms: the text to push, empty for none.
\* The first branch is the suffix after the text seen, the second the
\* fallback that takes the whole text.
TextDelta(prev, new_text) ==
    IF StartsWith(new_text, prev) THEN Suffix(new_text, Len(prev))
    ELSE IF new_text # <<>> /\ new_text # prev THEN new_text
    ELSE <<>>

\* handle_codex_item_event (codex.rs), on r = [st, ui]
HandleCodexItemEvent(r, item) ==
    CASE item.type = "agent_message" ->
            LET prev == MapGet(r.st.agent_message_seen, item.id, <<>>)
                delta == TextDelta(prev, item.text)
                st1 == IF delta # <<>>
                       THEN [r.st EXCEPT
                               !.full_content = @ \o delta,
                               !.content_blocks = Append(@, TextBlock(delta))]
                       ELSE r.st
            IN [st |-> [st1 EXCEPT !.agent_message_seen =
                                        MapPut(@, item.id, item.text)],
                ui |-> IF delta # <<>>
                       THEN Append(r.ui, ChunkEvent(delta, item.id))
                       ELSE r.ui]
      [] item.type = "reasoning" ->
            LET prev == MapGet(r.st.reasoning_seen, item.id, <<>>)
                delta == TextDelta(prev, item.text)
                st1 == IF delta # <<>>
                       THEN [r.st EXCEPT
                               !.content_blocks =
                                   Append(@, ThinkingBlock(delta))]
                       ELSE r.st
            IN [st |-> [st1 EXCEPT !.reasoning_seen =
                                        MapPut(@, item.id, item.text)],
                ui |-> IF delta # <<>>
                       THEN Append(r.ui, ThinkingEvent(delta, item.id))
                       ELSE r.ui]
      [] item.type = "command_execution" ->
            UpdateToolOutput(
                EnsureToolCall(r, item.id, "Bash", [command |-> item.command]),
                item.id, item.aggregated_output)
      [] item.type = "file_change" ->
            IF Len(item.changes) <= 1
            THEN LET input == IF item.changes # <<>>
                              THEN EditInput(item.changes[1])
                              ELSE [changes |-> <<>>]
                 IN UpdateToolOutput(
                        EnsureToolCall(r, item.id, "Edit", input),
                        item.id, StatusOutput(item.status))
            ELSE FileChangeEach(r, item, 0)
      [] item.type = "mcp_tool_call" ->
            LET r1 == EnsureToolCall(r, item.id,
                          McpToolName(item.server, item.tool), item.arguments)
            IN IF item.result # None
               THEN UpdateToolOutput(r1, item.id,
                        ToJsonStringPretty(item.result[1].structured_content))
               ELSE IF item.error # None
               THEN UpdateToolOutput(r1, item.id,
                        ErrorOutput(item.error[1].message))
               ELSE r1
      [] item.type = "web_search" ->
            EnsureToolCall(r, item.id, "WebSearch", [query |-> item.query])
      [] item.type = "todo_list" ->
            LET input == MapTodos(item.items)
                snapshot == ToJsonString(input)
            IN IF item.id \in DOMAIN r.st.todo_list_seen
                  /\ r.st.todo_list_seen[item.id] = snapshot
               THEN r
               ELSE LET seq == MapGet(r.st.todo_list_seq, item.id, 0) + 1
                        st1 == [r.st EXCEPT
                                  !.todo_list_seen =
                                      MapPut(@, item.id, snapshot),
                                  !.todo_list_seq = MapPut(@, item.id, seq)]
                    IN EnsureToolCall([r EXCEPT !.st = st1],
                           SyntheticId(item.id, seq), "TodoWrite", input)
      [] item.type = "error" ->
            [r EXCEPT !.ui = Append(@, ErrorEvent(item.message))]

\* An ensure_tool_call_for_message that adds no content block.
EnsureToolCallForMessageNoBlock(m, id, name, input) ==
    IF HasTool(m.tool_calls, id) THEN m
    ELSE [m EXCEPT !.tool_calls = Append(@, ToolCall(id, name, input))]

\* ensure_tool_call_for_message (run_log.rs), on the message being rebuilt
EnsureToolCallForMessage(m, id, name, input) ==
    IF HasTool(m.tool_calls, id) THEN m
    ELSE [m EXCEPT !.tool_calls = Append(@, ToolCall(id, name, input)),
                   !.content_blocks = Append(@, ToolUseBlock(id))]

\* The loop over the changes of a file_change, replay side.
RECURSIVE FileChangeEachForMessage(_, _, _)
FileChangeEachForMessage(m, fc, idx) ==
    IF idx >= Len(fc.changes) THEN m
    ELSE LET tool_id == SyntheticId(fc.id, idx)
             m1 == EnsureToolCallForMessage(m, tool_id, "Edit",
                                            EditInput(fc.changes[idx + 1]))
             m2 == [m1 EXCEPT !.tool_calls =
                        SetOutput(@, tool_id, StatusOutput(fc.status))]
         IN FileChangeEachForMessage(m2, fc, idx + 1)

\* The message being rebuilt by replay, before the first line.
NewMessage ==
    [content |-> <<>>, tool_calls |-> <<>>, content_blocks |-> <<>>,
     agent_message_seen |-> EmptyMap, reasoning_seen |-> EmptyMap,
     todo_list_seen |-> EmptyMap, todo_list_seq |-> EmptyMap]

\* apply_codex_item_to_message (run_log.rs)
ApplyCodexItemToMessage(m, item) ==
    CASE item.type = "agent_message" ->
            LET prev == MapGet(m.agent_message_seen, item.id, <<>>)
                new_text == item.text
                m1 == IF StartsWith(new_text, prev)
                      THEN LET delta == Suffix(new_text, Len(prev))
                           IN IF delta # <<>>
                              THEN [m EXCEPT
                                      !.content = @ \o delta,
                                      !.content_blocks =
                                          Append(@, TextBlock(delta))]
                              ELSE m
                      ELSE IF new_text # <<>> /\ new_text # prev
                      THEN [m EXCEPT
                              !.content = @ \o new_text,
                              !.content_blocks = Append(@, TextBlock(new_text))]
                      ELSE m
            IN [m1 EXCEPT !.agent_message_seen = MapPut(@, item.id, new_text)]
      [] item.type = "reasoning" ->
            LET prev == MapGet(m.reasoning_seen, item.id, <<>>)
                new_text == item.text
                m1 == IF StartsWith(new_text, prev)
                      THEN LET delta == Suffix(new_text, Len(prev))
                           IN IF delta # <<>>
                              THEN [m EXCEPT !.content_blocks =
                                        Append(@, ThinkingBlock(delta))]
                              ELSE m
                      ELSE IF new_text # <<>> /\ new_text # prev
                      THEN [m EXCEPT !.content_blocks =
                                Append(@, ThinkingBlock(new_text))]
                      ELSE m
            IN [m1 EXCEPT !.reasoning_seen = MapPut(@, item.id, new_text)]
      [] item.type = "command_execution" ->
            LET m1 == EnsureToolCallForMessage(m, item.id, "Bash",
                                               [command |-> item.command])
            IN [m1 EXCEPT !.tool_calls =
                    SetOutput(@, item.id, item.aggregated_output)]
      [] item.type = "file_change" ->
            IF Len(item.changes) <= 1
            THEN LET input == IF item.changes # <<>>
                              THEN EditInput(item.changes[1])
                              ELSE [changes |-> <<>>]
                     m1 == EnsureToolCallForMessage(m, item.id, "Edit", input)
                 IN [m1 EXCEPT !.tool_calls =
                         SetOutput(@, item.id, StatusOutput(item.status))]
            ELSE FileChangeEachForMessage(m, item, 0)
      [] item.type = "mcp_tool_call" ->
            LET m1 == EnsureToolCallForMessage(m, item.id,
                          McpToolName(item.server, item.tool), item.arguments)
            IN IF item.result # None
               THEN [m1 EXCEPT !.tool_calls = SetOutput(@, item.id,
                        ToJsonStringPretty(item.result[1].structured_content))]
               ELSE IF item.error # None
               THEN [m1 EXCEPT !.tool_calls = SetOutput(@, item.id,
                        ErrorOutput(item.error[1].message))]
               ELSE m1
      [] item.type = "web_search" ->
            EnsureToolCallForMessage(m, item.id, "WebSearch",
                                     [query |-> item.query])
      [] item.type = "todo_list" ->
            LET input == MapTodos(item.items)
                snapshot == ToJsonString(input)
            IN IF item.id \in DOMAIN m.todo_list_seen
                  /\ m.todo_list_seen[item.id] = snapshot
               THEN m
               ELSE LET seq == MapGet(m.todo_list_seq, item.id, 0) + 1
                        m1 == [m EXCEPT
                                 !.todo_list_seen =
                                     MapPut(@, item.id, snapshot),
                                 !.todo_list_seq = MapPut(@, item.id, seq)]
                    IN EnsureToolCallForMessage(m1,
                           SyntheticId(item.id, seq), "TodoWrite", input)
      [] item.type = "error" -> m

\* The thread items the folder is fed.
Texts == {<<>>, <<"a">>, <<"a", "b">>, <<"b">>}
AgentMessages == [type : {"agent_message"}, id : {"m1", "m2"}, text : Texts]
Reasonings == [type : {"reasoning"}, id : {"r1"}, text : Texts]
CommandExecutions ==
    [type : {"command_execution"}, id : {"c1"}, command : {"ls", "pwd"},
     aggregated_output : {"", "out"}]
Changes == {<<>>, <<[path |-> "p", kind |-> "add"]>>,
            <<[path |-> "p", kind |-> "add"], [path |-> "q", kind |-> "update"]>>}
FileChanges ==
    [type : {"file_change"}, id : {"f1"}, changes : Changes,
     status : {"completed", "failed"}]
McpToolCalls ==
    [type : {"mcp_tool_call"}, id : {"t1"}, server : {"srv"}, tool : {"tool"},
     arguments : {"args"},
     result : {None, Some([structured_content |-> "res"])},
     error : {None, Some([message |-> "boom"])}]
WebSearches == [type : {"web_search"}, id : {"w1"}, query : {"q1", "q2"}]
TodoItems == {<<>>, <<[text |-> "t", completed |-> FALSE]>>,
              <<[text |-> "t", completed |-> TRUE]>>}
TodoLists ==
    [type : {"todo_list"}, id : {"d1"}, items : TodoItems]
    \cup [type : {"todo_list"}, id : {"d2"}, items : {<<>>}]
Errors == [type : {"error"}, message : {"boom"}]

InitFold ==
    /\ full_content = NewFolder.full_content
    /\ tool_calls = NewFolder.tool_calls
    /\ content_blocks = NewFolder.content_blocks
    /\ agent_message_seen = NewFolder.agent_message_seen
    /\ reasoning_seen = NewFolder.reasoning_seen
    /\ todo_list_seen = NewFolder.todo_list_seen
    /\ todo_list_seq = NewFolder.todo_list_seq
    /\ ui = <<>>
    /\ items = <<>>
    /\ runText = EmptyMap

\* The folder's locals as one record.
Folder ==
    [full_content |-> full_content, tool_calls |-> tool_calls,
     content_blocks |-> content_blocks,
     agent_message_seen |-> agent_message_seen,
     reasoning_seen |-> reasoning_seen, todo_list_seen |-> todo_list_seen,
     todo_list_seq |-> todo_list_seq]

\* The text of the last item of type `ty` folded for `id`, empty when none.
RECURSIVE LastTextOf(_, _, _)
LastTextOf(its, ty, id) ==
    IF its = <<>> THEN <<>>
    ELSE IF Last(its).type = ty /\ Last(its).id = id
    THEN Last(its).text
    ELSE LastTextOf(SubSeq(its, 1, Len(its) - 1), ty, id)

\* One item event reaches handle_codex_item_event.
Fold(item) ==
    /\ Len(items) < MaxItems
    /\ \E r \in {HandleCodexItemEvent([st |-> Folder, ui |-> ui], item)} :
       LET out == SubSeq(r.ui, Len(ui) + 1, Len(r.ui))
       IN /\ full_content' = r.st.full_content
          /\ tool_calls' = r.st.tool_calls
          /\ content_blocks' = r.st.content_blocks
          /\ agent_message_seen' = r.st.agent_message_seen
          /\ reasoning_seen' = r.st.reasoning_seen
          /\ todo_list_seen' = r.st.todo_list_seen
          /\ todo_list_seq' = r.st.todo_list_seq
          /\ ui' = r.ui
          /\ runText' =
                IF item.type # "agent_message" THEN runText
                ELSE LET chunk == IF out = <<>> THEN <<>> ELSE out[1].content
                     IN MapPut(runText, item.id,
                            IF StartsWith(item.text,
                                          LastTextOf(items, item.type, item.id))
                            THEN MapGet(runText, item.id, <<>>) \o chunk
                            ELSE chunk)
    /\ items' = Append(items, item)
    /\ UNCHANGED outsideFold

FoldAgentMessage == \E item \in AgentMessages : Fold(item)
FoldReasoning == \E item \in Reasonings : Fold(item)
FoldCommandExecution == \E item \in CommandExecutions : Fold(item)
FoldFileChange == \E item \in FileChanges : Fold(item)
FoldMcpToolCall == \E item \in McpToolCalls : Fold(item)
FoldWebSearch == \E item \in WebSearches : Fold(item)
FoldTodoList == \E item \in TodoLists : Fold(item)
FoldError == \E item \in Errors : Fold(item)

\* Replay of the items folded so far (the item arm of
\* parse_codex_run_to_message's loop).
RECURSIVE ReplayItems(_, _)
ReplayItems(m, its) ==
    IF its = <<>> THEN m
    ELSE ReplayItems(ApplyCodexItemToMessage(m, Head(its)), Tail(its))

(***************************************************************************)
(* -----------------------------  Supervisors  --------------------------- *)
(* A line is what the code asks of it: whether it is blank, holds the      *)
(* "_run_meta" marker, starts with '{', decodes as a CodexExecEvent, looks *)
(* like an approval prompt.  The lines of a run log are valid UTF-8 and    *)
(* shorter than the tailer's cap, so that poll() returns every complete    *)
(* line once, as shown for the tailer.                                     *)
(***************************************************************************)

\* Most lines the child writes to the run log after the header.
MaxLogLines == 3

\* Most chunks read from the PTY.
MaxReads == 3

BlankLine == [kind |-> "blank"]
MetaLine == [kind |-> "meta"]
BadJsonLine == [kind |-> "badjson"]
TextLine == [kind |-> "text"]
PromptLine == [kind |-> "prompt"]
\* A JSON object of an event type that is not known, with a text that reads
\* as an approval prompt: {"type":"approval.requested","prompt":"Run? [y/N]"}
UnknownEventLine == [kind |-> "unknown"]
EventLine(e) == [kind |-> "event", event |-> e]

\* line.trim().is_empty()
TrimIsEmpty(l) == l.kind = "blank"
\* A test for the sentinel key that finds it in no line.
ContainsRunMetaNever(l) == FALSE

\* line.contains("\"_run_meta\"")
ContainsRunMeta(l) == l.kind = "meta"
\* trimmed.starts_with('{')
StartsWithBrace(l) == l.kind \in {"meta", "badjson", "event", "unknown"}
\* A decoder that takes what it cannot decode for a failed turn.
ParseEventOrFailure(l) ==
    IF l.kind = "event" THEN Some(l.event)
    ELSE IF l.kind \in {"badjson", "unknown"}
    THEN Some([type |-> "turn.failed", message |-> "undecodable"])
    ELSE None

\* serde_json::from_str::<CodexExecEvent>(line).ok()
ParseEvent(l) == IF l.kind = "event" THEN Some(l.event) ELSE None
\* looks_like_approval_prompt
LooksLikeApprovalPrompt(l) == l.kind \in {"prompt", "unknown"}

ThreadStarted == [type |-> "thread.started", thread_id |-> "th"]
TurnStarted == [type |-> "turn.started"]
TurnCompleted == [type |-> "turn.completed"]
TurnFailed == [type |-> "turn.failed", message |-> "boom"]
StreamError == [type |-> "error", message |-> "lost"]
ItemUpdated(item) == [type |-> "item.updated", item |-> item]

IsItemEvent(e) ==
    e.type \in {"item.started", "item.updated", "item.completed"}

\* The items of the runs the supervisors see.
RunItems ==
    {[type |-> "agent_message", id |-> "m1", text |-> <<"a">>],
     [type |-> "agent_message", id |-> "m1", text |-> <<"a", "b">>],
     [type |-> "command_execution", id |-> "c1", command |-> "ls",
      aggregated_output |-> "out"]}

RunEvents ==
    {ThreadStarted, TurnStarted, TurnCompleted, TurnFailed, StreamError}
    \cup {ItemUpdated(item) : item \in RunItems}

\* What the child can write to the run log as one line.
LogLines == {BlankLine, BadJsonLine} \cup {EventLine(e) : e \in RunEvents}

\* What a child that dies in the middle of a line leaves behind: an event cut
\* short, or a whole event without its newline.
LogTails ==
    {BadJsonLine,
     EventLine(ItemUpdated([type |-> "agent_message", id |-> "m1",
                            text |-> <<"a", "b">>]))}

\* format!("Codex turn failed: {}", ..) and format!("Codex stream error: {}", ..)
TurnFailedMessage(message) == "Codex turn failed: " \o message
StreamErrorMessage(message) == "Codex stream error: " \o message

\* read_run_log: BufRead::lines() yields an unterminated last line as well.
ReadRunLog == log \o logTail

\* parse_codex_run_to_message: the loop over the lines of a stored log.
RECURSIVE ParseCodexRunToMessage(_, _)
ParseCodexRunToMessage(m, lines) ==
    IF lines = <<>> THEN m
    ELSE LET line == Head(lines)
             event == ParseEvent(line)
         IN IF TrimIsEmpty(line) \/ ContainsRunMeta(line) \/ event = None
            THEN ParseCodexRunToMessage(m, Tail(lines))
            ELSE IF IsItemEvent(event[1])
            THEN ParseCodexRunToMessage(
                     ApplyCodexItemToMessage(m, event[1].item), Tail(lines))
            ELSE ParseCodexRunToMessage(m, Tail(lines))

\* The for loop of tail_codex_output over the lines of one poll.  d is
\* [r, received, completed, failed, n, items]: the folder with its UI events,
\* the two flags, whether the loop returned Err, and the lines gone through.
RECURSIVE ForLines(_, _)
ForLines(d, lines) ==
    IF lines = <<>> THEN d
    ELSE LET line == Head(lines)
             d1 == [d EXCEPT !.n = @ + 1]
         IN IF TrimIsEmpty(line) \/ ContainsRunMeta(line)
            THEN ForLines(d1, Tail(lines))
            ELSE LET d2 == [d1 EXCEPT !.received = TRUE]
                     event == ParseEvent(line)
                 IN IF event = None THEN ForLines(d2, Tail(lines))
                    ELSE LET e == event[1] IN
                         CASE e.type = "thread.started" ->
                                ForLines(d2, Tail(lines))
                           [] e.type = "turn.completed" ->
                                ForLines([d2 EXCEPT !.completed = TRUE],
                                         Tail(lines))
                           [] e.type = "turn.failed" ->
                                [d2 EXCEPT !.failed = TRUE,
                                    !.r.ui = Append(@, ErrorEvent(
                                                TurnFailedMessage(e.message)))]
                           [] e.type = "error" ->
                                [d2 EXCEPT !.failed = TRUE,
                                    !.r.ui = Append(@, ErrorEvent(
                                                StreamErrorMessage(e.message)))]
                           [] IsItemEvent(e) ->
                                ForLines([d2 EXCEPT
                                    !.r = HandleCodexItemEvent(@, e.item),
                                    !.items = Append(@, e.item)], Tail(lines))
                           [] e.type = "turn.started" ->
                                ForLines(d2, Tail(lines))

\* The messages of the three failures found after the loop over the lines.
DiedAfterOutput == "Codex process exited unexpectedly and stopped streaming output."
DiedBeforeOutput == "Codex process exited before producing any output."
StartupTimeout == "Codex startup timeout (120s): no output received."

\* Lines of the stderr tail kept (10 in the source), scaled down.
STDERR_TAIL_LINES == 2

\* The stderr log of the child: None when it cannot be opened, else its
\* lines.  It is shorter than the 8 KiB that read_stderr_tail reads.
StderrFiles ==
    {None, Some(<<>>), Some(<<" ">>), Some(<<"e1">>),
     Some(<<"e1", "", "e2  ", "e3">>)}

\* join("\n")
RECURSIVE JoinWithNewline(_)
JoinWithNewline(ls) ==
    IF Len(ls) = 1 THEN Head(ls)
    ELSE Head(ls) \o "\n" \o JoinWithNewline(Tail(ls))

\* read_stderr_tail: the last lines that are not blank, without their
\* trailing whitespace; None without such a line.
read_stderr_tail(stderr_file) ==
    IF stderr_file = None THEN None
    ELSE LET text == stderr_file[1]
             trimmed == [i \in 1..Len(text) |-> TrimEnd(text[i])]
             lines == SelectSeq(trimmed, LAMBDA l : Trim(l) # "")
         IN IF lines = <<>> THEN None
            ELSE Some(JoinWithNewline(SubSeq(lines,
                        Len(lines) - Min(Len(lines), STDERR_TAIL_LINES) + 1,
                        Len(lines))))

StderrPath == "run.stderr.log"

\* A failure message that leaves the stderr tail out.
FailureMessageWithoutTail(exit, stderr_tail) ==
    exit \o " (stderr: " \o StderrPath \o ")"

\* The message of a failure: its text, the path of the stderr log and, when
\* there is one, the stderr tail.
FailureMessage(exit, stderr_tail) ==
    exit \o " (stderr: " \o StderrPath \o ")"
    \o (IF stderr_tail # None
        THEN "\n\nstderr (tail):\n" \o stderr_tail[1] ELSE "")

\* A loop that does not ask the registry.
LoopExitIgnoresRegistry(d, idleLong, startupLong) ==
    IF d.completed THEN "completed"
    ELSE IF d.received
    THEN IF ~childAlive /\ idleLong THEN DiedAfterOutput ELSE ""
    ELSE IF ~childAlive /\ idleLong THEN DiedBeforeOutput
    ELSE IF startupLong THEN StartupTimeout
    ELSE ""

\* A loop that, once output was received, waits for more whether or not the
\* child is alive.
LoopExitWaitsAfterOutput(d, idleLong, startupLong) ==
    IF d.completed THEN "completed"
    ELSE IF ~running THEN "cancelled"
    ELSE IF d.received THEN ""
    ELSE IF ~childAlive /\ idleLong THEN DiedBeforeOutput
    ELSE IF startupLong THEN StartupTimeout
    ELSE ""

\* Why an iteration of tail_codex_output's loop leaves the loop, given what
\* the for loop left and the two clocks: "completed", "cancelled", a failure
\* message, or "" to sleep and poll again.
LoopExit(d, idleLong, startupLong) ==
    IF d.completed THEN "completed"
    ELSE IF ~running THEN "cancelled"
    ELSE IF d.received
    THEN IF ~childAlive /\ idleLong THEN DiedAfterOutput ELSE ""
    ELSE IF ~childAlive /\ idleLong THEN DiedBeforeOutput
    ELSE IF startupLong THEN StartupTimeout
    ELSE ""

IsFailure(exit) == exit \in {DiedAfterOutput, DiedBeforeOutput, StartupTimeout}

\* An end of tail_codex_output that reports done before the failure.
AfterTailLoopDoneFirst(events, exit, stderr_tail) ==
    IF IsFailure(exit)
    THEN events \o <<DoneEvent, ErrorEvent(FailureMessage(exit, stderr_tail))>>
    ELSE IF exit = "completed" THEN Append(events, DoneEvent)
    ELSE events

\* What follows the loop of tail_codex_output: a failure is reported as one
\* chat:error and returned as Err; otherwise chat:done goes out unless the
\* run was cancelled (the loop is left by break when the turn completed, on
\* cancellation and on a failure only).  Nothing follows a return from inside
\* the loop, and nothing an iteration that sleeps and polls again.
AfterTailLoop(events, exit, stderr_tail) ==
    IF IsFailure(exit)
    THEN Append(events, ErrorEvent(FailureMessage(exit, stderr_tail)))
    ELSE IF exit = "completed" THEN Append(events, DoneEvent)
    ELSE events

\* The folder's variables take the values of record st.
SetFolder(st) ==
    /\ full_content' = st.full_content
    /\ tool_calls' = st.tool_calls
    /\ content_blocks' = st.content_blocks
    /\ agent_message_seen' = st.agent_message_seen
    /\ reasoning_seen' = st.reasoning_seen
    /\ todo_list_seen' = st.todo_list_seen
    /\ todo_list_seq' = st.todo_list_seq

interactiveLocals ==
    <<finished, pending, awaiting_approval, last_command, writerRegistered,
      diskFull, reads, approvals>>

\* The last step was not an iteration of the loop of tail_codex_output.
NoIteration == [iterated |-> FALSE]

\* One iteration of the loop of tail_codex_output, and what follows the loop
\* when the iteration leaves it.  idleLong: more than dead_process_timeout
\* has passed since last_output_time; startupLong: more than startup_timeout
\* since started_at; stderr_file: the stderr log as a failing iteration
\* finds it.
TailCodexOutput ==
    /\ mode = "detached"
    /\ phase = "loop"
    /\ \E idleLong \in BOOLEAN, startupLong \in BOOLEAN,
          stderr_file \in StderrFiles :
        \E lines \in {SubSeq(log, polled + 1, Len(log))} :
        \E d \in {ForLines([r |-> [st |-> Folder, ui |-> ui],
                             received |-> received_codex_output,
                             completed |-> completed, failed |-> FALSE,
                             n |-> processed, items |-> items], lines)} :
        LET exit == IF d.failed THEN "failed"
                    ELSE LoopExit(d, idleLong, startupLong)
        IN /\ lines # <<>> => ~idleLong
           /\ ~IsFailure(exit) => stderr_file = None
           /\ lastIteration' = [iterated |-> TRUE, idleLong |-> idleLong,
                                startupLong |-> startupLong,
                                stderr_file |-> stderr_file]
           /\ SetFolder(d.r.st)
           /\ items' = d.items
           /\ polled' = Len(log)
           /\ processed' = d.n
           /\ received_codex_output' = d.received
           /\ completed' = d.completed
           /\ cancelled' = (exit = "cancelled")
           /\ ui' = AfterTailLoop(d.r.ui, exit,
                                   read_stderr_tail(stderr_file))
           /\ phase' = IF exit = "" THEN "loop"
                       ELSE IF exit \in {"completed", "cancelled"} THEN "ok"
                       ELSE "err"
           /\ childAlive' = IF exit = StartupTimeout THEN FALSE ELSE childAlive
    /\ UNCHANGED <<mode, log, logTail, running, runText>>
    /\ UNCHANGED interactiveLocals
    /\ UNCHANGED outsideSupervisors

unchangedByEnvironment ==
    <<mode, phase, polled, processed, completed, cancelled,
      received_codex_output, finished, pending, awaiting_approval,
      last_command, writerRegistered, reads, approvals>>

\* The detached child appends one line to the run log.
ChildWrites ==
    /\ mode = "detached"
    /\ childAlive
    /\ Len(log) < MaxLogLines + 1
    /\ \E line \in LogLines : log' = Append(log, line)
    /\ UNCHANGED <<logTail, childAlive, running, diskFull>>
    /\ lastIteration' = NoIteration
    /\ UNCHANGED unchangedByEnvironment
    /\ UNCHANGED <<outsideSupervisors, foldVars>>

\* The detached child exits, after a whole line or in the middle of one.
ChildExits ==
    /\ mode = "detached"
    /\ childAlive
    /\ childAlive' = FALSE
    /\ \E tail \in {None} \cup {Some(l) : l \in LogTails} : logTail' = tail
    /\ UNCHANGED <<log, running, diskFull>>
    /\ lastIteration' = NoIteration
    /\ UNCHANGED unchangedByEnvironment
    /\ UNCHANGED <<outsideSupervisors, foldVars>>

\* The user cancels the run: the session leaves the registry.
Cancel ==
    /\ mode \in {"detached", "interactive"}
    /\ phase = "loop"
    /\ running
    /\ running' = FALSE
    /\ UNCHANGED <<log, logTail, childAlive, diskFull>>
    /\ lastIteration' = NoIteration
    /\ UNCHANGED unchangedByEnvironment
    /\ UNCHANGED <<outsideSupervisors, foldVars>>

\* No prompt matched and no denial emitted since the last parsed event.
NoApprovals == [prompts |-> 0, denials |-> 0]

\* One more test for a prompt: whether it matched, whether a denial went out.
Counted(a, matches, emits) ==
    [prompts |-> Min(2, a.prompts + (IF matches THEN 1 ELSE 0)),
     denials |-> Min(2, a.denials + (IF emits THEN 1 ELSE 0))]

\* A supervisor that emits a denial for every prompt that matches.
EmitsApprovalAlways(matches, awaiting) == matches

\* A prompt that matches is reported unless one is awaited already.
EmitsApproval(matches, awaiting) == matches /\ ~awaiting

\* The run log holds the header line written before the child starts.
InitSupervisor(m) ==
    /\ mode = m
    /\ phase = "loop"
    /\ log = <<MetaLine>>
    /\ logTail = None
    /\ childAlive = TRUE
    /\ running = TRUE
    /\ polled = 0
    /\ processed = 0
    /\ completed = FALSE
    /\ cancelled = FALSE
    /\ received_codex_output = FALSE
    /\ finished = FALSE
    /\ pending = None
    /\ awaiting_approval = FALSE
    /\ last_command = None
    /\ writerRegistered = TRUE
    /\ diskFull = FALSE
    /\ reads = 0
    /\ approvals = NoApprovals
    /\ lastIteration = NoIteration

\* A line that is malformed JSON, or JSON of a type that is not known.
Undecodable(l) == l.kind \in {"badjson", "unknown"}

\* emit_approval: the denial names the last command seen, or a stand-in.
EmitApproval(cmd) ==
    IF cmd # None THEN PermissionDeniedEvent(cmd[1][1], cmd[1][2])
    ELSE PermissionDeniedEvent("codex:approval", "(unknown)")

\* The probe of the text read so far for a prompt printed without a newline:
\* pending.trim() is not empty, does not start with '{' and looks like an
\* approval prompt.
ProbeFinds(buffered) ==
    LET text == SelectSeq(buffered, LAMBDA l : ~TrimIsEmpty(l))
    IN /\ text # <<>>
       /\ ~StartsWithBrace(Head(text))
       /\ \E k \in 1..Len(text) : LooksLikeApprovalPrompt(text[k])

\* The while loop of execute_codex_interactive over the complete lines of
\* pending.  p is [r, log, finished, cancelled, awaiting, last, failed, items,
\* approvals]: the folder with its UI events, the run log, the flags,
\* last_command, whether a write to the run log failed (the function returns
\* Err there), and the histories.
RECURSIVE WhileLines(_, _)
WhileLines(p, lines) ==
    IF lines = <<>> THEN p
    ELSE LET line == Head(lines)
             event == ParseEvent(line)
         IN IF TrimIsEmpty(line) \/ ContainsRunMeta(line)
            THEN WhileLines(p, Tail(lines))
            ELSE IF StartsWithBrace(line) /\ event # None
            THEN IF diskFull THEN [p EXCEPT !.awaiting = FALSE, !.failed = TRUE,
                                            !.approvals = NoApprovals]
                 ELSE LET e == event[1]
                          p1 == [p EXCEPT !.awaiting = FALSE,
                                          !.approvals = NoApprovals,
                                          !.log = Append(@, line)]
                          p2 ==
                            CASE e.type = "thread.started" -> p1
                              [] e.type = "turn.completed" ->
                                    [p1 EXCEPT !.finished = TRUE]
                              [] e.type \in {"turn.failed", "error"} ->
                                    [p1 EXCEPT
                                        !.r.ui = Append(@, ErrorEvent(e.message)),
                                        !.cancelled = TRUE, !.finished = TRUE]
                              [] IsItemEvent(e) ->
                                    [p1 EXCEPT
                                        !.last =
                                            IF e.item.type = "command_execution"
                                            THEN Some(<<e.item.id, e.item.command>>)
                                            ELSE @,
                                        !.r = HandleCodexItemEvent(@, e.item),
                                        !.items = Append(@, e.item)]
                              [] e.type = "turn.started" -> p1
                      IN IF p2.finished THEN p2
                         ELSE WhileLines(p2, Tail(lines))
            ELSE LET matches == LooksLikeApprovalPrompt(line)
                     emits == EmitsApproval(matches, p.awaiting)
                 IN WhileLines([p EXCEPT
                                !.r.ui = IF emits
                                         THEN Append(@, EmitApproval(p.last))
                                         ELSE @,
                                !.awaiting = @ \/ emits,
                                !.approvals = Counted(@, matches, emits)],
                               Tail(lines))

\* What the PTY hands to one read.
PtyLines ==
    {BlankLine, MetaLine, BadJsonLine, TextLine, PromptLine, UnknownEventLine}
    \cup {EventLine(e) : e \in RunEvents}
PtyTails == {PromptLine, EventLine(TurnCompleted)}
PtyFirst == {PromptLine, EventLine(TurnCompleted), EventLine(TurnFailed)}
PtyChunks ==
    {[lines |-> <<l>>, tail |-> None] : l \in PtyLines}
    \cup {[lines |-> <<>>, tail |-> Some(t)] : t \in PtyTails}
    \cup {[lines |-> <<l1, l2>>, tail |-> None] : l1 \in PtyFirst, l2 \in PtyLines}
    \cup {[lines |-> <<EventLine(ItemUpdated(item))>>, tail |-> Some(PromptLine)] :
            item \in {i \in RunItems : i.type = "command_execution"}}
    \cup {[lines |-> <<>>, tail |-> None]}

\* What follows the loop of execute_codex_interactive: the writer and the
\* session leave their registries, chat:done goes out unless cancelled.
AfterLoop(events, isCancelled) ==
    /\ writerRegistered' = FALSE
    /\ running' = FALSE
    /\ cancelled' = isCancelled
    /\ ui' = IF isCancelled THEN events ELSE Append(events, DoneEvent)
    /\ phase' = "ok"

detachedLocals ==
    <<polled, processed, completed, received_codex_output, lastIteration>>

\* The loop finds the session gone from the registry.
InteractiveCancelled ==
    /\ mode = "interactive"
    /\ phase = "loop"
    /\ ~running
    /\ AfterLoop(ui, TRUE)
    /\ UNCHANGED <<mode, log, logTail, childAlive, finished, pending,
                   awaiting_approval, last_command, diskFull, reads,
                   approvals>>
    /\ UNCHANGED detachedLocals
    /\ UNCHANGED <<items, runText, full_content, tool_calls, content_blocks,
                   agent_message_seen, reasoning_seen, todo_list_seen,
                   todo_list_seq>>
    /\ UNCHANGED outsideSupervisors

\* The read returns Ok(0): the child's end of the PTY is closed.
InteractiveEof ==
    /\ mode = "interactive"
    /\ phase = "loop"
    /\ running
    /\ childAlive' = FALSE
    /\ AfterLoop(ui, ~finished)
    /\ UNCHANGED <<mode, log, logTail, finished, pending, awaiting_approval,
                   last_command, diskFull, reads,
                   approvals>>
    /\ UNCHANGED detachedLocals
    /\ UNCHANGED <<items, runText, full_content, tool_calls, content_blocks,
                   agent_message_seen, reasoning_seen, todo_list_seen,
                   todo_list_seq>>
    /\ UNCHANGED outsideSupervisors

ReadErrorMessage == "Error reading Codex PTY output"

\* The read returns Err.
InteractiveReadError ==
    /\ mode = "interactive"
    /\ phase = "loop"
    /\ running
    /\ AfterLoop(Append(ui, ErrorEvent(ReadErrorMessage)), TRUE)
    /\ UNCHANGED <<mode, log, logTail, childAlive, finished, pending,
                   awaiting_approval, last_command, diskFull, reads,
                   approvals>>
    /\ UNCHANGED detachedLocals
    /\ UNCHANGED <<items, runText, full_content, tool_calls, content_blocks,
                   agent_message_seen, reasoning_seen, todo_list_seen,
                   todo_list_seq>>
    /\ UNCHANGED outsideSupervisors

\* The read returns a chunk: the text that was pending is completed by the
\* chunk's first newline, the chunk's lines follow, its tail stays pending.
InteractiveRead ==
    /\ mode = "interactive"
    /\ phase = "loop"
    /\ running
    /\ reads < MaxReads
    /\ reads' = reads + 1
    /\ \E chunk \in PtyChunks :
        LET lines == pending \o chunk.lines
            buffered == lines \o chunk.tail
            probed == EmitsApproval(ProbeFinds(buffered), awaiting_approval)
        IN
        \E p \in {WhileLines(
                    [r |-> [st |-> Folder,
                            ui |-> IF probed
                                   THEN Append(ui, EmitApproval(last_command))
                                   ELSE ui],
                     log |-> log, finished |-> finished,
                     cancelled |-> cancelled,
                     awaiting |-> awaiting_approval \/ probed,
                     last |-> last_command, failed |-> FALSE,
                     items |-> items,
                     approvals |-> Counted(approvals, ProbeFinds(buffered),
                                           probed)], lines)} :
           /\ buffered # <<>>
           /\ SetFolder(p.r.st)
           /\ items' = p.items
           /\ log' = p.log
           /\ finished' = p.finished
           /\ awaiting_approval' = p.awaiting
           /\ approvals' = p.approvals
           /\ last_command' = p.last
           /\ pending' = chunk.tail
           /\ lastIteration' =
                  [iterated |-> FALSE,
                   undecodable |->
                       /\ lines # <<>>
                       /\ chunk.tail = None
                       /\ \A k \in 1..Len(lines) : Undecodable(lines[k]),
                   header |->
                       /\ lines # <<>>
                       /\ chunk.tail = None
                       /\ \A k \in 1..Len(lines) : lines[k].kind = "meta"]
           /\ IF p.failed
              THEN /\ phase' = "err"
                   /\ ui' = p.r.ui
                   /\ cancelled' = p.cancelled
                   /\ UNCHANGED <<writerRegistered, running>>
              ELSE IF p.finished
              THEN AfterLoop(p.r.ui, p.cancelled)
              ELSE /\ ui' = p.r.ui
                   /\ cancelled' = p.cancelled
                   /\ UNCHANGED <<phase, writerRegistered, running>>
    /\ UNCHANGED <<mode, logTail, childAlive, diskFull, runText>>
    /\ UNCHANGED <<polled, processed, completed, received_codex_output>>
    /\ UNCHANGED outsideSupervisors

\* The run log cannot be opened for append: execute_codex_interactive
\* returns Err before its loop, after the session and the writer were
\* registered.
OpenRunLogFails ==
    /\ mode = "interactive"
    /\ phase = "loop"
    /\ reads = 0
    /\ phase' = "err"
    /\ UNCHANGED <<mode, log, logTail, childAlive, running, cancelled, ui>>
    /\ UNCHANGED interactiveLocals
    /\ UNCHANGED detachedLocals
    /\ UNCHANGED <<items, runText, full_content, tool_calls, content_blocks,
                   agent_message_seen, reasoning_seen, todo_list_seen,
                   todo_list_seq>>
    /\ UNCHANGED outsideSupervisors

\* tailer.poll() fails: tail_codex_output returns Err from its loop.
PollFails ==
    /\ mode = "detached"
    /\ phase = "loop"
    /\ phase' = "err"
    /\ lastIteration' = NoIteration
    /\ UNCHANGED <<mode, log, logTail, childAlive, running, cancelled, ui,
                   polled, processed, completed, received_codex_output>>
    /\ UNCHANGED interactiveLocals
    /\ UNCHANGED <<items, runText, full_content, tool_calls, content_blocks,
                   agent_message_seen, reasoning_seen, todo_list_seen,
                   todo_list_seq>>
    /\ UNCHANGED outsideSupervisors

\* The disk of the run log fills up.
DiskFills ==
    /\ mode = "interactive"
    /\ phase = "loop"
    /\ ~diskFull
    /\ diskFull' = TRUE
    /\ UNCHANGED <<log, logTail, childAlive, running>>
    /\ lastIteration' = NoIteration
    /\ UNCHANGED unchangedByEnvironment
    /\ UNCHANGED <<outsideSupervisors, foldVars>>

(***************************************************************************)
(* What the folder is said to do.                                          *)
(***************************************************************************)

\* The item folded by the step, and the UI events the step emitted.
Folded == Last(items')
Emitted == SubSeq(ui', Len(ui) + 1, Len(ui'))
IsTextStep ==
    items' # items /\ Folded.type \in {"agent_message", "reasoning"}

\* The block and the event of a piece of text of an item.
BlockOf(item, t) ==
    IF item.type = "agent_message" THEN TextBlock(t) ELSE ThinkingBlock(t)
EventOf(item, t) ==
    IF item.type = "agent_message" THEN ChunkEvent(t, item.id)
    ELSE ThinkingEvent(t, item.id)
SeenOf(item, agent_seen, reason_seen) ==
    IF item.type = "agent_message" THEN agent_seen ELSE reason_seen

\* What a text step does when it is to push the pieces `ps` (none or one).
TextStepPushes(ps) ==
    /\ Emitted = [k \in 1..Len(ps) |-> EventOf(Folded, ps[k])]
    /\ content_blocks' =
          content_blocks \o [k \in 1..Len(ps) |-> BlockOf(Folded, ps[k])]
    /\ full_content' =
          IF Folded.type = "agent_message" /\ ps # <<>>
          THEN full_content \o ps[1] ELSE full_content
    /\ LET seen == SeenOf(Folded, agent_message_seen', reasoning_seen')
       IN Folded.id \in DOMAIN seen /\ seen[Folded.id] = Folded.text
    /\ ApplyCodexItemToMessage(ReplayItems(NewMessage, items), Folded)
          .content_blocks = content_blocks'

\* C2 as stated: an agent_message or reasoning event whose text t starts
\* with the text last seen for its id emits the strict suffix as one chunk
\* (nothing when the suffix is empty), any other event emits the whole of t
\* as one block; the text remembered becomes t; agent-message chunks, and
\* only they, are appended to the full content.
C2_DeltaDerivation ==
    [][IsTextStep =>
        LET t == Folded.text
            seen == LastTextOf(items, Folded.type, Folded.id)
        IN IF StartsWith(t, seen)
           THEN TextStepPushes(IF Len(t) > Len(seen)
                               THEN <<Suffix(t, Len(seen))>> ELSE <<>>)
           ELSE TextStepPushes(<<t>>)]_vars

\* C2 amended: as C2, but an event whose text is empty and does not extend
\* the text last seen emits nothing.
C2_DeltaDerivationNonEmpty ==
    [][IsTextStep =>
        LET t == Folded.text
            seen == LastTextOf(items, Folded.type, Folded.id)
        IN IF StartsWith(t, seen)
           THEN TextStepPushes(IF Len(t) > Len(seen)
                               THEN <<Suffix(t, Len(seen))>> ELSE <<>>)
           ELSE TextStepPushes(IF t # <<>> THEN <<t>> ELSE <<>>)]_vars

\* C2's cases have happened: a suffix chunk, then the fallback, for an
\* agent message, and a thinking chunk that left the full content alone.
C2_Witness ==
    /\ Len(items) = 3
    /\ ui = <<ChunkEvent(<<"a">>, "m1"), ThinkingEvent(<<"a">>, "r1"),
              ChunkEvent(<<"b">>, "m1")>>
    /\ full_content = <<"a", "b">>
    /\ agent_message_seen["m1"] = <<"b">>

\* The text chunks emitted for an agent_message id, concatenated in order.
RECURSIVE ChunksOf(_, _)
ChunksOf(evs, id) ==
    IF evs = <<>> THEN <<>>
    ELSE IF Head(evs).ev = "chat:chunk" /\ Head(evs).of = id
    THEN Head(evs).content \o ChunksOf(Tail(evs), id)
    ELSE ChunksOf(Tail(evs), id)

AgentIdsFolded ==
    {items[k].id : k \in {j \in 1..Len(items) : items[j].type = "agent_message"}}

\* C3 as stated: for each agent_message id, the concatenation of all text
\* chunks emitted for it is a prefix of the text of its last event.
C3_DeltaMonotonicity ==
    \A id \in AgentIdsFolded :
        StartsWith(LastTextOf(items, "agent_message", id), ChunksOf(ui, id))

\* C3 amended: for each agent_message id, the concatenation of the text
\* chunks emitted for it since the last event whose text did not extend the
\* text then seen (that event's chunk included) is the text of its last
\* event.
C3_DeltaMonotonicitySinceReset ==
    \A id \in AgentIdsFolded :
        /\ id \in DOMAIN runText
        /\ runText[id] = LastTextOf(items, "agent_message", id)
        /\ \E k \in 0..Len(ChunksOf(ui, id)) :
              runText[id] = Suffix(ChunksOf(ui, id), k)

\* C3's case has happened: two chunks for one id, then a text that does not
\* extend them.
C3_Witness ==
    /\ Len(items) = 3
    /\ \A k \in 1..3 : items[k].type = "agent_message" /\ items[k].id = "m1"
    /\ ChunksOf(ui, "m1") = <<"a", "b", "b">>
    /\ runText["m1"] = <<"b">>

ToolUsesOf(evs, id) ==
    Cardinality({k \in 1..Len(evs) :
                    evs[k].ev = "chat:tool_use" /\ evs[k].id = id})
ToolBlocksOf(blocks, id) ==
    Cardinality({k \in 1..Len(blocks) :
                    blocks[k].type = "tool_use" /\ blocks[k].tool_call_id = id})
EntriesOf(calls, id) ==
    Cardinality({k \in 1..Len(calls) : calls[k].id = id})
ToolResults(evs) ==
    Cardinality({k \in 1..Len(evs) : evs[k].ev = "chat:tool_result"})

\* Every tool id an event or an entry can carry.
ToolIds ==
    {"c1", "f1", "t1", "w1"}
    \cup {SyntheticId("f1", n) : n \in 0..1}
    \cup {SyntheticId(d, n) : d \in {"d1", "d2"}, n \in 1..(MaxItems + 1)}

ToolIdsUsed ==
    {tool_calls[k].id : k \in 1..Len(tool_calls)}
    \cup {ui[k].id : k \in {j \in 1..Len(ui) : ui[j].ev = "chat:tool_use"}}

\* The output the last item event gave the entries it is about, if it gave
\* one.
GivenOutput(item) ==
    CASE item.type = "command_execution" -> Some(item.aggregated_output)
      [] item.type = "file_change" -> Some(StatusOutput(item.status))
      [] item.type = "mcp_tool_call" ->
            IF item.result # None
            THEN Some(ToJsonStringPretty(item.result[1].structured_content))
            ELSE IF item.error # None
            THEN Some(ErrorOutput(item.error[1].message))
            ELSE None
      [] OTHER -> None

\* The tool ids an item event is about.
ToolIdsOf(item) ==
    CASE item.type \in {"command_execution", "mcp_tool_call", "web_search"} ->
            {item.id}
      [] item.type = "file_change" ->
            IF Len(item.changes) <= 1 THEN {item.id}
            ELSE {SyntheticId(item.id, n) : n \in 0..(Len(item.changes) - 1)}
      [] OTHER -> {}

\* C4, part one: at most one entry per tool id, and exactly one
\* chat:tool_use and one ToolUse block per id that has an entry, none for
\* the others; replay holds the same entries.
C4_OnePerId ==
    /\ ToolIdsUsed \subseteq ToolIds
    /\ \A id \in ToolIds :
          /\ EntriesOf(tool_calls, id) <= 1
          /\ ToolUsesOf(ui, id) = EntriesOf(tool_calls, id)
          /\ ToolBlocksOf(content_blocks, id) = EntriesOf(tool_calls, id)
    /\ ReplayItems(NewMessage, items).tool_calls = tool_calls

\* C4, part two: a step keeps every entry in place with its id, name and
\* input, and an event for an existing id that brings an output makes it the
\* entry's output.
C4_OnlyOutputChanges ==
    /\ Len(tool_calls') >= Len(tool_calls)
    /\ \A k \in 1..Len(tool_calls) :
          /\ tool_calls'[k].id = tool_calls[k].id
          /\ tool_calls'[k].name = tool_calls[k].name
          /\ tool_calls'[k].input = tool_calls[k].input
          /\ tool_calls'[k].parent_tool_use_id = tool_calls[k].parent_tool_use_id
          /\ items' # items =>
                tool_calls'[k].output =
                    IF tool_calls[k].id \in ToolIdsOf(Folded)
                       /\ GivenOutput(Folded) # None
                    THEN GivenOutput(Folded)
                    ELSE tool_calls[k].output

\* C4: the tool-call list holds at most one entry per tool id and exactly
\* one chat:tool_use and one ToolUse block was emitted per id; a later event
\* for an existing id changes only that entry's output, last writer wins.
C4_Idempotence == [](C4_OnePerId) /\ [][C4_OnlyOutputChanges]_vars

\* C4's case has happened: three events for one command with two different
\* commands and two different outputs left one entry, the first command and
\* the last output.
C4_Witness ==
    /\ Len(items) = 3
    /\ \A k \in 1..3 : items[k].type = "command_execution"
    /\ items[1].command = "ls" /\ items[2].command = "pwd"
    /\ items[2].aggregated_output = "out" /\ items[3].aggregated_output = ""
    /\ Len(tool_calls) = 1
    /\ tool_calls[1].input = [command |-> "ls"]
    /\ tool_calls[1].output = Some("")
    /\ ToolUsesOf(ui, "c1") = 1

\* C5: every chat:tool_result with tool_use_id x is preceded in the UI
\* event sequence by a chat:tool_use with id x.
C5_UseBeforeResult ==
    \A j \in 1..Len(ui) :
        ui[j].ev = "chat:tool_result" =>
            \E i \in 1..(j - 1) :
                ui[i].ev = "chat:tool_use" /\ ui[i].id = ui[j].tool_use_id

\* C5's case has happened: results for a command, for both files of a file
\* change and for an MCP call, the command's twice.
C5_Witness ==
    /\ Len(items) = 3
    /\ ToolResults(ui) >= 4
    /\ \E j \in 1..Len(ui) :
          ui[j].ev = "chat:tool_result" /\ ui[j].tool_use_id = "t1"
    /\ \E j \in 1..Len(ui) :
          ui[j].ev = "chat:tool_result" /\ ui[j].tool_use_id = "f1:1"
    /\ \E j \in 1..Len(ui) :
          ui[j].ev = "chat:tool_result" /\ ui[j].tool_use_id = "c1"

\* The snapshot of a todo list: its items' texts and completion flags.
TodoSnapshot(todos) ==
    [k \in 1..Len(todos) |-> <<todos[k].text, todos[k].completed>>]

\* The todo_list events folded for `id`, in order.
TodoEventsOf(its, id) ==
    SelectSeq(its, LAMBDA it : it.type = "todo_list" /\ it.id = id)

\* How many snapshots of `id` differ from the one before (the first counts).
RECURSIVE DistinctSnapshots(_)
DistinctSnapshots(evs) ==
    IF evs = <<>> THEN 0
    ELSE LET rest == SubSeq(evs, 1, Len(evs) - 1)
         IN DistinctSnapshots(rest)
            + (IF rest # <<>>
                  /\ TodoSnapshot(Last(rest).items) = TodoSnapshot(Last(evs).items)
               THEN 0 ELSE 1)

\* C6: a todo_list event whose snapshot equals the one last seen for its id
\* emits nothing and adds nothing; any other emits exactly one chat:tool_use,
\* with id "<item_id>:<seq>", seq the number of snapshots emitted for the id
\* so far counted from 1, and adds exactly one tool-call entry; replay adds
\* the same entry.
C6_TodoSnapshotDedup ==
    [][(items' # items /\ Folded.type = "todo_list") =>
        LET before == TodoEventsOf(items, Folded.id)
            same == before # <<>>
                    /\ TodoSnapshot(Last(before).items)
                         = TodoSnapshot(Folded.items)
            seq == DistinctSnapshots(before) + 1
            id == SyntheticId(Folded.id, seq)
        IN IF same
           THEN Emitted = <<>> /\ tool_calls' = tool_calls
                /\ content_blocks' = content_blocks
           ELSE /\ Emitted = <<ToolUseEvent(id, "TodoWrite",
                                            MapTodos(Folded.items)),
                               ToolBlockEvent(id)>>
                /\ ToolUsesOf(ui, id) = 0
                /\ tool_calls' = Append(tool_calls,
                       ToolCall(id, "TodoWrite", MapTodos(Folded.items)))
                /\ ReplayItems(NewMessage, items').tool_calls = tool_calls']_vars

\* C6's case has happened: a snapshot, the same again, then a different one
\* gave two tool uses, the second with the suffix :2.
C6_Witness ==
    /\ Len(items) = 3
    /\ \A k \in 1..3 : items[k].type = "todo_list" /\ items[k].id = "d1"
    /\ items[1].items = items[2].items
    /\ items[3].items # items[2].items
    /\ Len(tool_calls) = 2
    /\ tool_calls[2].id = "d1:2"
    /\ ToolUsesOf(ui, "d1:1") = 1 /\ ToolUsesOf(ui, "d1:2") = 1

(***************************************************************************)
(* What the supervisors are said to do.                                    *)
(***************************************************************************)

\* What the live supervisor holds, and what replay makes of stored lines.
LiveMessage ==
    [content |-> full_content, tool_calls |-> tool_calls,
     content_blocks |-> content_blocks]
StoredMessage(lines) ==
    LET m == ParseCodexRunToMessage(NewMessage, lines)
    IN [content |-> m.content, tool_calls |-> m.tool_calls,
        content_blocks |-> m.content_blocks]

\* C1 as stated: once the detached supervisor has returned, however the run
\* ended, replay of the stored log yields the content blocks, tool calls and
\* full text the supervisor produced.
C1_ReplayEquivalence ==
    (mode = "detached" /\ phase # "loop") =>
        LiveMessage = StoredMessage(ReadRunLog)

\* C1 amended: replay of the lines of the log that the detached supervisor
\* went through yields the content blocks, tool calls and full text the
\* supervisor produced; that is replay of the stored log when the supervisor
\* went through all of its lines.
C1_ReplayOfProcessedLines ==
    mode = "detached" =>
        /\ processed <= polled /\ polled <= Len(log)
        /\ LiveMessage = StoredMessage(SubSeq(log, 1, processed))
        /\ (phase # "loop" /\ processed = Len(ReadRunLog)) =>
                LiveMessage = StoredMessage(ReadRunLog)

\* C1's case has happened: a run with a command and a message ended with
\* turn.completed and the supervisor went through the whole log.
C1_Witness ==
    /\ mode = "detached" /\ phase = "ok" /\ completed
    /\ processed = Len(ReadRunLog)
    /\ full_content = <<"a", "b">>
    /\ Len(tool_calls) = 1 /\ tool_calls[1].output = Some("out")
    /\ Len(content_blocks) = 2

\* C7: chat:done is emitted at most once, and no other event of the run is
\* emitted after it, under the detached and the interactive supervisor.
C7_DoneOnceAndLast ==
    mode \in {"detached", "interactive"} =>
        \A k \in 1..Len(ui) : ui[k].ev = "chat:done" => k = Len(ui)

\* C7's case has happened: an interactive run asked for approval, ran a
\* command, completed and emitted chat:done after the other events.
C7_Witness ==
    /\ mode = "interactive" /\ phase = "ok" /\ ~cancelled
    /\ Len(ui) >= 5
    /\ Last(ui) = DoneEvent
    /\ \E k \in 1..Len(ui) : ui[k].ev = "chat:permission_denied"
    /\ \E k \in 1..Len(ui) : ui[k].ev = "chat:tool_result"

\* The step is an iteration of the loop of tail_codex_output.
IsIteration == lastIteration'.iterated

\* The lines the loop has gone through when the iteration ends.
LinesSeen == SubSeq(log, 1, processed')

\* Some line decoded as a JSON event; some line was neither blank nor the
\* header.
JsonObserved(lines) == \E k \in 1..Len(lines) : ParseEvent(lines[k]) # None
OutputObserved(lines) ==
    \E k \in 1..Len(lines) :
        ~TrimIsEmpty(lines[k]) /\ ~ContainsRunMeta(lines[k])

EndsWithText(str, end) ==
    /\ Len(end) <= Len(str)
    /\ SubSeq(str, Len(str) - Len(end) + 1, Len(str)) = end

\* The iteration fails with the text given: the step emits that one
\* chat:error, whose text ends with the stderr tail when there is one, the
\* UI holds no chat:done, and the function returns Err.
FailsWith(text) ==
    LET stderr_tail == read_stderr_tail(lastIteration'.stderr_file)
    IN /\ phase' = "err"
       /\ Len(Emitted) = 1
       /\ Emitted[1].ev = "chat:error"
       /\ SubSeq(Emitted[1].error, 1, Len(text)) = text
       /\ stderr_tail # None => EndsWithText(Emitted[1].error, stderr_tail[1])
       /\ \A k \in 1..Len(ui') : ui'[k].ev # "chat:done"

\* C22 as stated: an iteration of tail_codex_output that finds more than the
\* startup timeout elapsed, the session registered and the child alive, when
\* no line has decoded as a JSON event, kills the child, emits exactly one
\* chat:error that carries the stderr tail, emits no chat:done and returns an
\* error.
C22_StartupTimeout ==
    [][(/\ IsIteration
        /\ lastIteration'.startupLong
        /\ running /\ childAlive
        /\ ~JsonObserved(LinesSeen))
       => (FailsWith(StartupTimeout) /\ ~childAlive')]_vars

\* C22, what the loop does: the startup timeout ends the run when no line
\* other than blank lines and the header was received; a line that does not
\* decode counts as output, and then no startup timeout ends the run.
C22_StartupTimeoutWithoutOutput ==
    [][(/\ IsIteration
        /\ lastIteration'.startupLong
        /\ running /\ childAlive)
       => IF OutputObserved(LinesSeen)
          THEN \/ phase' = "loop" /\ childAlive'
               \/ JsonObserved(SubSeq(log, polled + 1, Len(log)))
          ELSE FailsWith(StartupTimeout) /\ ~childAlive']_vars

\* The startup timeout has ended a run: the child is killed and the one
\* chat:error carries the last lines of the stderr log.
C22_Witness ==
    /\ mode = "detached" /\ phase = "err"
    /\ lastIteration.iterated /\ lastIteration.startupLong
    /\ ~childAlive
    /\ ui = <<ErrorEvent("Codex startup timeout (120s): no output received."
                \o " (stderr: run.stderr.log)\n\nstderr (tail):\ne2\ne3")>>

\* C23 as stated: an iteration of tail_codex_output that finds the child dead
\* and no new line for more than the dead-process timeout, the session
\* registered and no turn.completed, fails with "exited unexpectedly and
\* stopped streaming output" if a line had decoded as a JSON event and with
\* "exited before producing any output" if none had: one chat:error, no
\* chat:done, an error returned.
C23_DeadProcessTimeout ==
    [][(/\ IsIteration
        /\ lastIteration'.idleLong
        /\ ~childAlive /\ running /\ ~completed')
       => IF JsonObserved(LinesSeen)
          THEN FailsWith(DiedAfterOutput)
          ELSE FailsWith(DiedBeforeOutput)]_vars

\* C23, what the loop does: the text is chosen by whether any line other than
\* blank lines and the header was received, decoded or not.
C23_DeadProcessTimeoutByOutput ==
    [][(/\ IsIteration
        /\ lastIteration'.idleLong
        /\ ~childAlive /\ running /\ ~completed')
       => IF OutputObserved(LinesSeen)
          THEN FailsWith(DiedAfterOutput)
          ELSE FailsWith(DiedBeforeOutput)]_vars

\* The dead-process timeout has ended a run whose child wrote one line that
\* does not decode: the text is that of a run that had streamed output.
C23_Witness ==
    /\ mode = "detached" /\ phase = "err"
    /\ lastIteration.iterated /\ lastIteration.idleLong
    /\ log = <<MetaLine, BadJsonLine>>
    /\ Len(ui) = 1
    /\ ui[1] = ErrorEvent(FailureMessage(DiedAfterOutput,
                    read_stderr_tail(lastIteration.stderr_file)))

\* Some line decodes as an event that ends the turn.
HasTurnEnd(lines) ==
    \E k \in 1..Len(lines) :
        /\ ParseEvent(lines[k]) # None
        /\ ParseEvent(lines[k])[1].type
                \in {"turn.completed", "turn.failed", "error"}

C26_RegistriesCleared ==
    (mode = "interactive" /\ phase # "loop") =>
        ~writerRegistered /\ ~running

\* C26, what the code does keep: the paths that leave through the end of the
\* loop (completion, turn failure, cancellation, end of the PTY, PTY read
\* error) remove the session from both registries.
C26_RegistriesClearedAfterLoop ==
    (mode = "interactive" /\ phase = "ok") =>
        ~writerRegistered /\ ~running

\* A write to the run log failed after a read: the function has returned and
\* the session is in both registries still.
C26_Witness ==
    /\ mode = "interactive"
    /\ phase = "err"
    /\ reads > 0
    /\ writerRegistered
    /\ running

\* C27: between two consecutive parsed JSON events, and before the first,
\* execute_codex_interactive emits at most one chat:permission_denied,
\* however many lines or pending buffers match the approval pattern: exactly
\* one once a prompt has matched, which is when it awaits approval; a parsed
\* event clears the state, so that the next prompt that matches emits again.
C27_OneDenialBetweenEvents ==
    mode = "interactive" =>
        /\ approvals.denials <= 1
        /\ approvals.prompts >= 1 <=> approvals.denials = 1
        /\ awaiting_approval <=> approvals.denials = 1

DenialsIn(events) ==
    Len(SelectSeq(events, LAMBDA e : e.ev = "chat:permission_denied"))

\* A denial went out, an event was parsed, and of the two prompts that
\* matched since the event the first gave the second denial of the run.
C27_Witness ==
    /\ mode = "interactive"
    /\ approvals = [prompts |-> 2, denials |-> 1]
    /\ DenialsIn(ui) = 2
    /\ Len(log) > 1

\* The run has emitted chat:tool_use for the command with this id.
ToolUseEmitted(id) ==
    \E i \in DOMAIN ui : ui[i].ev = "chat:tool_use" /\ ui[i].id = id

\* The last event parsed is this command's, and the text that follows it,
\* read without a newline, is an approval prompt; the supervisor is about to
\* read again.
PromptFollowsCommand ==
    /\ mode = "interactive"
    /\ phase = "loop"
    /\ pending = Some(PromptLine)
    /\ last_command # None
    /\ Len(log) > 1
    /\ log[Len(log)].kind = "event"
    /\ IsItemEvent(log[Len(log)].event)
    /\ log[Len(log)].event.item.type = "command_execution"
    /\ log[Len(log)].event.item.id = last_command[1][1]

\* C28 as stated: for every way the PTY byte stream is split into read
\* chunks, when a CommandExecution event line is followed by free text
\* matching the approval pattern, the supervisor has emitted chat:tool_use
\* for the command and then chat:permission_denied with the command's id
\* before it blocks waiting for further PTY output.
C28_DenialFollowsCommand ==
    PromptFollowsCommand =>
        /\ ToolUseEmitted(last_command[1][1])
        /\ ui[Len(ui)] = EmitApproval(last_command)

\* C28, what the code does keep: a prompt without a newline that arrives in a
\* read of its own, with no text pending, is reported by the end of the read.
C28_DenialForPromptReadAlone ==
    [][(/\ mode = "interactive"
        /\ reads' = reads + 1
        /\ pending = None
        /\ pending' = Some(PromptLine)
        /\ log' = log
        /\ phase' = "loop")
       => /\ ui' # <<>>
          /\ ui'[Len(ui')] = EmitApproval(last_command')
          /\ awaiting_approval']_vars

\* The command's line and the prompt came in one read: chat:tool_use went
\* out, no chat:permission_denied did, and the supervisor reads again.
C28_Witness ==
    /\ PromptFollowsCommand
    /\ reads = 1
    /\ ToolUseEmitted(last_command[1][1])
    /\ DenialsIn(ui) = 0
    /\ ~awaiting_approval

ErrorsIn(events) == Len(SelectSeq(events, LAMBDA e : e.ev = "chat:error"))

\* C29 as stated: every failure that ends a run (of the tailer's poll, of a
\* write to the run log, a failed turn, a stream error, the startup timeout,
\* a dead process) makes the supervisor emit exactly one chat:error for the
\* run before it returns the error.
C29_OneErrorPerFailure ==
    phase = "err" => ErrorsIn(ui) = 1

\* C29, what the code does keep: a failed turn, a stream error, the startup
\* timeout and a dead process give exactly one chat:error.
C29_OneErrorForTurnAndProcessFailures ==
    /\ (mode = "detached" /\ phase = "err" /\ lastIteration.iterated)
           => ErrorsIn(ui) = 1
    /\ (mode = "interactive" /\ finished /\ cancelled) => ErrorsIn(ui) = 1

\* The tailer's poll failed: the detached run has ended with an error and
\* without chat:error.
C29_Witness ==
    /\ mode = "detached"
    /\ phase = "err"
    /\ ErrorsIn(ui) = 0

\* The lines that the last iteration of tail_codex_output went through.
LinesOfIteration == SubSeq(log, processed + 1, processed')

\* An iteration of tail_codex_output over lines that all fail to decode,
\* on a registered session and with neither clock expired.
IteratesOverUndecodable ==
    /\ IsIteration
    /\ running
    /\ ~lastIteration'.idleLong /\ ~lastIteration'.startupLong
    /\ LinesOfIteration # <<>>
    /\ \A k \in 1..Len(LinesOfIteration) : Undecodable(LinesOfIteration[k])

\* A read of execute_codex_interactive whose lines all fail to decode.
ReadsUndecodable ==
    /\ mode = "interactive"
    /\ reads' = reads + 1
    /\ lastIteration'.undecodable

\* The step goes on with the run, emits nothing and leaves the folder alone.
LineSkipped ==
    /\ phase' = "loop"
    /\ ui' = ui
    /\ Folder' = Folder

\* The stored log without the lines that fail to decode.
Decodable(lines) == SelectSeq(lines, LAMBDA l : ~Undecodable(l))

\* Replay ignores the lines that fail to decode.
ReplaySkips ==
    StoredMessage(ReadRunLog) = StoredMessage(Decodable(ReadRunLog))

HeaderFirst == log # <<>> /\ log[1] = MetaLine

\* The detached supervisor has counted output only when it went through a
\* line that is neither blank nor the header.
OutputIsNotHeader ==
    (mode = "detached" /\ received_codex_output) =>
        \E k \in 1..processed : log[k].kind \notin {"blank", "meta"}

\* Replay of the stored log is replay of the lines after the header.
ReplaySkipsHeader ==
    StoredMessage(ReadRunLog) = StoredMessage(Tail(log) \o logTail)

\* An iteration of tail_codex_output over the header alone.
IteratesOverHeader ==
    /\ IsIteration
    /\ LinesOfIteration # <<>>
    /\ \A k \in 1..Len(LinesOfIteration) : LinesOfIteration[k].kind = "meta"

\* A read of execute_codex_interactive that brings lines with the sentinel
\* key only.
ReadsHeader ==
    /\ mode = "interactive"
    /\ reads' = reads + 1
    /\ lastIteration'.header

\* C32: the first line of every run log is the metadata header written by
\* start_run before any child output, also when the child never writes
\* anything; the detached supervisor, the interactive supervisor and the
\* replayer skip every line carrying the sentinel key, so that the header
\* never counts as observed output and never changes folder state.
C32_HeaderFirstAndSkipped ==
    [](HeaderFirst /\ OutputIsNotHeader /\ ReplaySkipsHeader)
    /\ [][/\ IteratesOverHeader =>
                /\ Folder' = Folder
                /\ received_codex_output' = received_codex_output
                /\ items' = items
          /\ ReadsHeader =>
                /\ LineSkipped
                /\ log' = log
                /\ awaiting_approval' = awaiting_approval]_vars

\* The child never wrote anything: the supervisor went through the header,
\* counted no output and gave up at the startup timeout.
C32_Witness ==
    /\ mode = "detached"
    /\ log = <<MetaLine>>
    /\ processed = 1
    /\ ~received_codex_output
    /\ phase = "err"
    /\ content_blocks = <<>>

DonesIn(events) == Len(SelectSeq(events, LAMBDA e : e.ev = "chat:done"))

\* The iteration went through a turn.completed event; it went through a
\* turn.failed or an error event, at which the function returns.
ReadsTurnCompleted ==
    /\ IsIteration
    /\ \E k \in (processed + 1)..processed' :
        ParseEvent(log[k]) = Some(TurnCompleted)
ReadsTurnFailure ==
    /\ IsIteration
    /\ \E k \in (processed + 1)..processed' :
        /\ ParseEvent(log[k]) # None
        /\ ParseEvent(log[k])[1].type \in {"turn.failed", "error"}

\* C34 as stated: in tail_codex_output, chat:done is emitted exactly when a
\* turn.completed event was read: an iteration that reads turn.completed
\* ends the function completed (Ok, cancelled false, usage recorded, one
\* chat:done), whether or not the session is registered; no other exit
\* emits chat:done.
C34_DoneIffTurnCompleted ==
    /\ [](mode = "detached" =>
            /\ DonesIn(ui) = (IF completed THEN 1 ELSE 0)
            /\ completed => (phase = "ok" /\ ~cancelled))
    /\ [][/\ ReadsTurnCompleted =>
                /\ phase' = "ok" /\ ~cancelled' /\ completed'
                /\ DonesIn(Emitted) = 1
          /\ (IsIteration /\ ~ReadsTurnCompleted) => DonesIn(Emitted) = 0]_vars

\* C34, what the code does: the for loop goes on after turn.completed, so a
\* turn.failed or an error event later in the lines of the same poll returns
\* Err with one chat:error and no chat:done.  chat:done is emitted exactly
\* when the loop is left completed: by an iteration that reads
\* turn.completed and no failure after it, registered or not.
C34_DoneIffLoopLeftCompleted ==
    /\ [](mode = "detached" =>
            /\ DonesIn(ui) = (IF completed /\ phase = "ok" THEN 1 ELSE 0)
            /\ completed => (phase \in {"ok", "err"} /\ ~cancelled))
    /\ [][/\ (ReadsTurnCompleted /\ ~ReadsTurnFailure) =>
                /\ phase' = "ok" /\ ~cancelled' /\ completed'
                /\ DonesIn(Emitted) = 1 /\ ErrorsIn(Emitted) = 0
                /\ Last(ui') = DoneEvent
          /\ (ReadsTurnCompleted /\ ReadsTurnFailure) =>
                /\ phase' = "err" /\ completed'
                /\ DonesIn(Emitted) = 0 /\ ErrorsIn(Emitted) = 1
          /\ (IsIteration /\ ~ReadsTurnCompleted) =>
                DonesIn(Emitted) = 0]_vars

\* One poll brought turn.completed and then turn.failed: the function has
\* returned Err after reading the completion, with chat:error and without
\* chat:done.
C34_Witness ==
    /\ mode = "detached" /\ phase = "err" /\ completed
    /\ \E k \in 1..(Len(log) - 1) :
        /\ log[k] = EventLine(TurnCompleted)
        /\ log[k + 1] = EventLine(TurnFailed)
        /\ processed = k + 1
    /\ DonesIn(ui) = 0
    /\ Last(ui) = ErrorEvent(TurnFailedMessage("boom"))

\* The texts of the Text blocks of a list of content blocks, concatenated.
RECURSIVE TextOfBlocks(_)
TextOfBlocks(blocks) ==
    IF blocks = <<>> THEN <<>>
    ELSE (IF Head(blocks).type = "text" THEN Head(blocks).text ELSE <<>>)
         \o TextOfBlocks(Tail(blocks))

\* The ids the ToolUse blocks refer to, in order; the ids of the tool calls.
ToolUseIds(blocks) ==
    LET uses == SelectSeq(blocks, LAMBDA b : b.type = "tool_use")
    IN [k \in 1..Len(uses) |-> uses[k].tool_call_id]
ToolCallIds(calls) == [k \in 1..Len(calls) |-> calls[k].id]

\* Content, blocks and tool calls of a folder agree.
BlocksAgree(content, blocks, calls) ==
    /\ content = TextOfBlocks(blocks)
    /\ ToolUseIds(blocks) = ToolCallIds(calls)
    /\ \A j, k \in 1..Len(calls) : calls[j].id = calls[k].id => j = k

TailCodexOutputIdle == TailCodexOutput /\ lastIteration'.idleLong

\* Most lines the child writes where termination is checked.
MaxFairLogLines == 2
WithinFairBound == Len(log) < MaxFairLogLines + 1

\* tail_codex_output has returned.
Returns == mode = "detached" /\ phase \in {"ok", "err"}

\* C39: termination of the detached supervisor: once the child has exited,
\* after which the run log does not grow, tail_codex_output eventually
\* returns (completed, cancelled or failed), whatever lines the log holds,
\* lines that are not valid JSON events among them.
C39_TailReturns == (mode = "detached" /\ ~childAlive) ~> Returns

\* The child wrote a line that is not valid JSON and exited; the supervisor
\* went through the line and has returned with the failure of a process
\* that died after output.
C39_Witness ==
    /\ Returns /\ phase = "err" /\ ~childAlive /\ running
    /\ \E k \in 1..Len(log) : log[k] = BadJsonLine
    /\ \A k \in 2..Len(log) : Undecodable(log[k]) \/ TrimIsEmpty(log[k])
    /\ processed = Len(log) /\ Len(log) >= 2
    /\ received_codex_output
    /\ ErrorsIn(ui) = 1

(***************************************************************************)
(* -------------------------  Argument builders  ------------------------- *)
(* build_codex_args_detached and build_codex_args_interactive              *)
(* (chat/codex.rs) and the argv of the one-shot run_codex_prompt           *)
(* (codex_cli/run.rs).  Tokens are strings.  The reasoning effort of the   *)
(* two builders is what ThinkingLevel::codex_reasoning_effort returns for  *)
(* the level given (None without a level): a fixed word, never blank.      *)
(* Values (model, directory, resume token, prompt) are not option words;   *)
(* the prompt of an interactive run starts with the note that              *)
(* write_codex_input_file puts before the user's message.                  *)
(***************************************************************************)
\* execution_mode.unwrap_or("plan")
ModeOf(c) == IF c.execution_mode = None THEN "plan" ELSE c.execution_mode[1]

\* The mapping of interactive runs, used for detached ones.
DetachedModeArgsAsInteractive(m) ==
    IF m = "build"
    THEN <<"--full-auto",
           "--config", "sandbox_workspace_write.network_access=true">>
    ELSE IF m = "yolo"
    THEN <<"--dangerously-bypass-approvals-and-sandbox">>
    ELSE <<"--sandbox", "read-only">>

\* The sandbox/network mapping of detached runs.
DetachedModeArgs(m) ==
    IF m = "build"
    THEN <<"--ask-for-approval", "never", "--sandbox", "workspace-write",
           "--config", "sandbox_workspace_write.network_access=true">>
    ELSE IF m = "yolo"
    THEN <<"--dangerously-bypass-approvals-and-sandbox">>
    ELSE <<"--ask-for-approval", "never", "--sandbox", "read-only">>

\* The sandbox/network mapping of interactive runs.
InteractiveModeArgs(m) ==
    IF m = "build"
    THEN <<"--full-auto",
           "--config", "sandbox_workspace_write.network_access=true">>
    ELSE IF m = "yolo"
    THEN <<"--dangerously-bypass-approvals-and-sandbox">>
    ELSE <<"--sandbox", "read-only">>

\* The exec subcommand and the options both builders always give it.
ExecArgs(c) ==
    <<"exec", "--color", "never", "--skip-git-repo-check",
      "--cd", c.working_dir>>

\* Model override (only if passed and non-empty), trimmed.
ModelArgs(c) ==
    IF c.model # None /\ Trim(c.model[1]) # ""
    THEN <<"--model", Trim(c.model[1])>>
    ELSE <<>>

\* format!("model_reasoning_effort=\"{effort}\"")
ReasoningEffortConfig(effort) == "model_reasoning_effort=\"" \o effort \o "\""

\* A reasoning effort override that passes "minimal" on.
EffortArgsAsGiven(c) ==
    IF c.reasoning_effort # None
    THEN <<"--config", ReasoningEffortConfig(c.reasoning_effort[1])>>
    ELSE <<>>

\* Reasoning effort override: "minimal" becomes "low".
EffortArgs(c) ==
    IF c.reasoning_effort # None
    THEN LET effort == IF c.reasoning_effort[1] = "minimal" THEN "low"
                       ELSE c.reasoning_effort[1]
         IN <<"--config", ReasoningEffortConfig(effort)>>
    ELSE <<>>

\* A resume that leaves the session id out.
ResumeArgsWithoutId(c) ==
    IF c.existing_codex_session_id # None THEN <<"resume">> ELSE <<>>

\* Resume if there is a session/thread id.
ResumeArgs(c) ==
    IF c.existing_codex_session_id # None
    THEN <<"resume", c.existing_codex_session_id[1]>>
    ELSE <<>>

\* The debug environment of both builders.
EnvVars(c) ==
    <<(<<"JEAN_SESSION_ID", c.session_id>>),
      (<<"JEAN_WORKTREE_ID", c.worktree_id>>),
      (<<"JEAN_AGENT", "codex">>)>>
    \o (IF c.ai_language # None
        THEN <<(<<"JEAN_AI_LANGUAGE", c.ai_language[1]>>)>>
        ELSE <<>>)

\* A detached builder that puts --json behind the resume subcommand.
DetachedArgsJsonAfterResume(c) ==
    [args |-> <<"--search">> \o DetachedModeArgs(ModeOf(c)) \o ExecArgs(c)
                \o ModelArgs(c) \o EffortArgs(c) \o ResumeArgs(c)
                \o <<"--json", "-">>,
     env_vars |-> EnvVars(c)]

build_codex_args_detached(c) ==
    [args |-> <<"--search">> \o DetachedModeArgs(ModeOf(c)) \o ExecArgs(c)
                \o ModelArgs(c) \o EffortArgs(c) \o <<"--json">>
                \o ResumeArgs(c) \o <<"-">>,
     env_vars |-> EnvVars(c)]

\* An interactive builder that takes the prompt from stdin.
InteractiveArgsFromStdin(c) ==
    [args |-> <<"--search">> \o InteractiveModeArgs(ModeOf(c)) \o ExecArgs(c)
                \o ModelArgs(c) \o EffortArgs(c) \o <<"--json">>
                \o ResumeArgs(c) \o <<"-">>,
     env_vars |-> EnvVars(c)]

build_codex_args_interactive(c) ==
    [args |-> <<"--search">> \o InteractiveModeArgs(ModeOf(c)) \o ExecArgs(c)
                \o ModelArgs(c) \o EffortArgs(c) \o <<"--json">>
                \o ResumeArgs(c) \o <<c.prompt>>,
     env_vars |-> EnvVars(c)]

\* normalize_reasoning_effort (codex_cli/run.rs)
normalize_reasoning_effort(effort) ==
    IF effort = Some("minimal") THEN Some("low")
    ELSE IF effort # None /\ Trim(effort[1]) = "" THEN None
    ELSE effort

\* The argv run_codex_prompt gives the CLI.
RunCodexPromptArgs(c) ==
    <<"--ask-for-approval", "never", "exec", "--skip-git-repo-check",
      "--cd", c.working_dir>>
    \o (IF c.model # None /\ Trim(c.model[1]) # ""
        THEN <<"--model", c.model[1]>> ELSE <<>>)
    \o (IF normalize_reasoning_effort(c.reasoning_effort) # None
        THEN <<"--config",
               ReasoningEffortConfig(
                   normalize_reasoning_effort(c.reasoning_effort)[1])>>
        ELSE <<>>)
    \o <<"--sandbox", "read-only", "--json", "-">>

\* ExecutionMode::from_optional_str (chat/mode_policy.rs)
from_optional_str(execution_mode) ==
    LET m == IF execution_mode = None THEN "plan"
             ELSE execution_mode[1]
    IN IF m = "build" THEN "Build" ELSE IF m = "yolo" THEN "Yolo" ELSE "Plan"

\* CodexSandbox::as_cli_value
as_cli_value(sandbox) ==
    IF sandbox = "ReadOnly" THEN "read-only" ELSE "workspace-write"

\* codex_detached_policy (chat/mode_policy.rs)
codex_detached_policy(em) ==
    IF em = "Build"
    THEN [mode |-> em, enable_search |-> TRUE,
          ask_for_approval |-> Some("never"),
          sandbox |-> Some("WorkspaceWrite"),
          workspace_write_network_access |-> FALSE,
          bypass_approvals_and_sandbox |-> FALSE]
    ELSE IF em = "Yolo"
    THEN [mode |-> em, enable_search |-> TRUE,
          ask_for_approval |-> None, sandbox |-> None,
          workspace_write_network_access |-> FALSE,
          bypass_approvals_and_sandbox |-> TRUE]
    ELSE [mode |-> em, enable_search |-> TRUE,
          ask_for_approval |-> Some("never"),
          sandbox |-> Some("ReadOnly"),
          workspace_write_network_access |-> FALSE,
          bypass_approvals_and_sandbox |-> FALSE]

\* push_codex_detached_mode_args (chat/mode_policy.rs): the tokens pushed.
push_codex_detached_mode_args(policy) ==
    (IF policy.enable_search THEN <<"--search">> ELSE <<>>)
    \o (IF policy.bypass_approvals_and_sandbox
        THEN <<"--dangerously-bypass-approvals-and-sandbox">>
        ELSE (IF policy.ask_for_approval # None
              THEN <<"--ask-for-approval", policy.ask_for_approval[1]>>
              ELSE <<>>)
             \o (IF policy.sandbox # None
                 THEN <<"--sandbox", as_cli_value(policy.sandbox[1])>>
                      \o (IF policy.sandbox[1] = "WorkspaceWrite"
                             /\ policy.workspace_write_network_access
                          THEN <<"--config",
                                 "sandbox_workspace_write.network_access=true">>
                          ELSE <<>>)
                 ELSE <<>>))

\* The inputs.
ExecutionModes ==
    {None, Some("plan"), Some("build"), Some("yolo"), Some("review")}
ModelNames == {None, Some("gpt-5.2-codex"), Some(" gpt-5.2 "), Some("   ")}
LevelEfforts ==
    {None, Some("minimal"), Some("low"), Some("high"), Some("xhigh")}
GivenEfforts == LevelEfforts \cup {Some(""), Some("   ")}
ResumeTokens == {None, Some("019c0af8-581d-77b3-af91-ce573a2d1d97")}
Languages == {None, Some("Czech")}
PromptNote == "Note: In this mode, outbound network access may be blocked."
PromptTexts == {PromptNote \o "\n\nfix the bug", PromptNote \o "\n\nresume"}

Calls ==
    [session_id : {"s1"}, worktree_id : {"w1"},
     existing_codex_session_id : ResumeTokens, model : ModelNames,
     reasoning_effort : GivenEfforts, execution_mode : ExecutionModes,
     working_dir : {"/tmp"}, ai_language : Languages, prompt : PromptTexts]

NoCall ==
    [session_id |-> "s1", worktree_id |-> "w1",
     existing_codex_session_id |-> None, model |-> None,
     reasoning_effort |-> None, execution_mode |-> None,
     working_dir |-> "/tmp", ai_language |-> None,
     prompt |-> PromptNote \o "\n\nfix the bug"]

InitArgs(cs) ==
    /\ call \in cs
    /\ built = "none"
    /\ args = <<>>
    /\ env_vars = <<>>

BuildCodexArgsDetached ==
    /\ built = "none"
    /\ call.reasoning_effort \in LevelEfforts
    /\ built' = "detached"
    /\ \E r \in {build_codex_args_detached(call)} :
        /\ args' = r.args
        /\ env_vars' = r.env_vars
    /\ UNCHANGED call
    /\ UNCHANGED outsideArgs

BuildCodexArgsInteractive ==
    /\ built = "none"
    /\ call.reasoning_effort \in LevelEfforts
    /\ built' = "interactive"
    /\ \E r \in {build_codex_args_interactive(call)} :
        /\ args' = r.args
        /\ env_vars' = r.env_vars
    /\ UNCHANGED call
    /\ UNCHANGED outsideArgs

\* push_codex_detached_mode_args on an empty list, for the policy of the
\* mode of the call.
PushCodexDetachedModeArgs ==
    /\ built = "none"
    /\ built' = "policy"
    /\ args' = push_codex_detached_mode_args(
                   codex_detached_policy(
                       from_optional_str(call.execution_mode)))
    /\ UNCHANGED <<call, env_vars>>
    /\ UNCHANGED outsideArgs

RunCodexPrompt ==
    /\ built = "none"
    /\ built' = "prompt"
    /\ args' = RunCodexPromptArgs(call)
    /\ UNCHANGED <<call, env_vars>>
    /\ UNCHANGED outsideArgs

(***************************************************************************)
(* Claims about the argument builders.                                     *)
(***************************************************************************)
\* The positions of a token in the argv; its index is the first of them.
PositionsOf(tok) == {i \in 1..Len(args) : args[i] = tok}
IndexOf(tok) == CHOOSE i \in PositionsOf(tok) : \A j \in PositionsOf(tok) : i <= j
Contains(tok) == PositionsOf(tok) # {}

\* The argv holds token a immediately followed by token b.
ContainsPair(a, b) ==
    \E i \in 1..(Len(args) - 1) : args[i] = a /\ args[i + 1] = b

\* One of the two chat builders returned.
ChatBuilt == built \in {"detached", "interactive"}
ResumeGiven == call.existing_codex_session_id # None

ExecOptions ==
    {"--color", "--skip-git-repo-check", "--cd", "--sandbox", "--config",
     "--json", "--model", "--ask-for-approval"}

OptionIsGlobal(i) ==
    \/ args[i] \in {"--sandbox", "--ask-for-approval"}
    \/ /\ args[i] = "--config"
       /\ args[i + 1] = "sandbox_workspace_write.network_access=true"

C15_LastTokenAndResumeOrder ==
    /\ built = "detached" => Last(args) = "-"
    /\ built = "interactive" => Last(args) = call.prompt
    /\ (ChatBuilt /\ ResumeGiven)
         => /\ Contains("exec") /\ Contains("resume")
            /\ IndexOf("exec") < IndexOf("resume")
            /\ Contains("--cd") /\ Contains("--json")
            /\ \A i \in 1..Len(args) :
                   args[i] \in {"--cd", "--sandbox", "--json"}
                       => i < IndexOf("resume")

\* An interactive plan run that resumes: --sandbox, --cd, --json, resume in
\* this order, the prompt last.
C15_Witness ==
    /\ built = "interactive"
    /\ ResumeGiven
    /\ ModeOf(call) = "plan"
    /\ IndexOf("--sandbox") < IndexOf("--cd")
    /\ IndexOf("--cd") < IndexOf("--json")
    /\ IndexOf("--json") < IndexOf("resume")
    /\ args[Len(args)] = call.prompt
    /\ call.prompt # "-"

\* C16: with a resume token t the argv of a chat builder holds "resume"
\* exactly once, followed by t and then by exactly one more token, the
\* prompt sentinel or the prompt text; without a resume token it holds no
\* "resume".
C16_ResumeOnceWithOneArgument ==
    ChatBuilt =>
        IF ResumeGiven
        THEN /\ Cardinality(PositionsOf("resume")) = 1
             /\ IndexOf("resume") = Len(args) - 2
             /\ args[Len(args) - 1] = call.existing_codex_session_id[1]
             /\ args[Len(args)]
                  = (IF built = "detached" THEN "-" ELSE call.prompt)
        ELSE ~Contains("resume")

\* A detached run that resumes session t: the argv ends with resume, t, "-".
C16_Witness ==
    /\ built = "detached"
    /\ ResumeGiven
    /\ SubSeq(args, Len(args) - 2, Len(args))
         = <<"resume", "019c0af8-581d-77b3-af91-ce573a2d1d97", "-">>

\* C17: the detached builder maps plan, an absent and an unrecognised mode
\* to "--ask-for-approval never" and "--sandbox read-only"; build to
\* "--ask-for-approval never", "--sandbox workspace-write" and "--config
\* sandbox_workspace_write.network_access=true"; yolo to the bypass flag
\* with neither --sandbox nor --ask-for-approval.
C17_DetachedModeMapping ==
    built = "detached" =>
        /\ call.execution_mode \in {None, Some("plan"), Some("review")}
             => /\ ContainsPair("--ask-for-approval", "never")
                /\ ContainsPair("--sandbox", "read-only")
                /\ ~Contains("--dangerously-bypass-approvals-and-sandbox")
        /\ call.execution_mode = Some("build")
             => /\ ContainsPair("--ask-for-approval", "never")
                /\ ContainsPair("--sandbox", "workspace-write")
                /\ ContainsPair("--config",
                       "sandbox_workspace_write.network_access=true")
                /\ ~Contains("--dangerously-bypass-approvals-and-sandbox")
        /\ call.execution_mode = Some("yolo")
             => /\ Contains("--dangerously-bypass-approvals-and-sandbox")
                /\ ~Contains("--sandbox")
                /\ ~Contains("--ask-for-approval")
        /\ Cardinality(PositionsOf("--sandbox")) <= 1

\* A detached run in an unrecognised mode got the plan mapping.
C17_Witness ==
    /\ built = "detached"
    /\ call.execution_mode = Some("review")
    /\ SubSeq(args, 1, 6)
         = <<"--search", "--ask-for-approval", "never", "--sandbox",
             "read-only", "exec">>

\* The reasoning-effort configs in the argv.
EffortConfigs ==
    {i \in 1..Len(args) :
        Len(args[i]) >= 22
            /\ SubSeq(args[i], 1, 22) = "model_reasoning_effort"}

\* The effort the CLI is to get for effort e.
EffortFor(e) == IF e = "minimal" THEN "low" ELSE e

\* C18: for a reasoning effort e that is given and not blank the argv holds
\* "--config" followed by model_reasoning_effort="e'", where e' is low for
\* minimal and e otherwise; without an effort it holds no such config; and
\* normalize_reasoning_effort maps the efforts the same way.
C18_ReasoningEffort ==
    /\ built \in {"detached", "interactive", "prompt"} =>
        IF call.reasoning_effort = None
        THEN EffortConfigs = {}
        ELSE Trim(call.reasoning_effort[1]) # ""
               => /\ ContainsPair("--config",
                      "model_reasoning_effort=\""
                          \o EffortFor(call.reasoning_effort[1]) \o "\"")
                  /\ Cardinality(EffortConfigs) = 1
    /\ normalize_reasoning_effort(call.reasoning_effort)
         = (IF call.reasoning_effort = None THEN None
            ELSE IF Trim(call.reasoning_effort[1]) = "" THEN None
            ELSE Some(EffortFor(call.reasoning_effort[1])))

\* A detached run at effort minimal: the config says low.
C18_Witness ==
    /\ built = "detached"
    /\ call.reasoning_effort = Some("minimal")
    /\ ContainsPair("--config", "model_reasoning_effort=\"low\"")
    /\ ~Contains("model_reasoning_effort=\"minimal\"")

\* The tokens before the exec token.
RECURSIVE BeforeExec(_)
BeforeExec(as) ==
    IF as = <<>> \/ Head(as) = "exec" THEN <<>>
    ELSE <<Head(as)>> \o BeforeExec(Tail(as))

\* The tokens of the policy of the mode of the call.
PolicyArgs ==
    push_codex_detached_mode_args(
        codex_detached_policy(from_optional_str(call.execution_mode)))

NetworkAccessArgs ==
    <<"--config", "sandbox_workspace_write.network_access=true">>

\* C37 as stated: the two definitions of the detached mode policy agree: for
\* each mode in {plan, build, yolo}, the tokens that
\* push_codex_detached_mode_args emits for codex_detached_policy(mode) are
\* the tokens that build_codex_args_detached emits before the exec token.
C37_PoliciesAgree ==
    ModeOf(call) \in {"plan", "build", "yolo"} =>
        /\ built = "detached" => BeforeExec(args) = PolicyArgs
        /\ built = "policy" =>
              args = BeforeExec(build_codex_args_detached(call).args)

\* C37, what the code does: the two agree for plan and yolo (and for a mode
\* that is not given or not known, which both take for plan); for build the
\* builder emits the network access override after the sandbox and the
\* policy does not.
C37_PoliciesAgreeButForNetwork ==
    LET override == IF ModeOf(call) = "build" THEN NetworkAccessArgs
                    ELSE <<>>
    IN /\ built = "detached" => BeforeExec(args) = PolicyArgs \o override
       /\ built = "policy" =>
             /\ args \o override
                    = BeforeExec(build_codex_args_detached(call).args)
             /\ \A k \in 1..Len(args) : args[k] # "--config"

\* The tokens of the policy of a build run were pushed: approval never and
\* the workspace-write sandbox, without the override that the builder emits
\* for the same call.
C37_Witness ==
    /\ built = "policy" /\ ModeOf(call) = "build"
    /\ args = <<"--search", "--ask-for-approval", "never",
                "--sandbox", "workspace-write">>
    /\ BeforeExec(build_codex_args_detached(call).args)
           = args \o NetworkAccessArgs

(***************************************************************************)
(* ---------------------------  Run log store  --------------------------- *)
(* The runs of the session metadata (chat/run_log.rs).  A run id is a      *)
(* number, unique over all sessions as a fresh UUID is; a timestamp is a   *)
(* number that now_timestamp() yields.  Metadata that does not exist is a  *)
(* session without runs.  Reads and writes of the metadata succeed.        *)
(***************************************************************************)

\* Most runs started in one behaviour.
MaxRuns == 2

Sessions == {"s1", "s2"}
Pids == {101, 102}
Timestamps == {1}

\* The assistant message ids: the one start_run assigns, one a caller
\* passes, and a fresh Uuid::new_v4().
UpfrontId == "upfront"
GivenId == "given"
FreshId == "fresh"

\* start_run: the RunEntry pushed.
NewRunEntry(id, now) ==
    [run_id |-> id, started_at |-> now, ended_at |-> None,
     status |-> "Running", assistant_message_id |-> Some(UpfrontId),
     cancelled |-> FALSE, recovered |-> FALSE, codex_session_id |-> None,
     pid |-> None]

\* The runs started so far, over all sessions.
RECURSIVE RunsIn(_)
RunsIn(ss) ==
    IF ss = {} THEN 0
    ELSE LET s == CHOOSE x \in ss : TRUE
         IN Len(metadata[s]) + RunsIn(ss \ {s})

RunCount == RunsIn(Sessions)

\* The closures applied to the run that metadata.find_run_mut(run_id) finds.
Completed(run, now, sid) ==
    [run EXCEPT !.status = "Completed", !.ended_at = Some(now),
                !.assistant_message_id = Some(GivenId),
                !.codex_session_id = sid]

Cancelled(run, now, asst) ==
    [run EXCEPT !.status = "Cancelled", !.ended_at = Some(now),
                !.cancelled = TRUE, !.assistant_message_id = asst]

Crashed(run, now) ==
    [run EXCEPT !.status = "Crashed", !.ended_at = Some(now),
                !.recovered = TRUE, !.assistant_message_id = Some(FreshId)]

\* A mark_running_run_cancelled that does not look at the status.
CancelledWhateverStatus(run, now) ==
    [run EXCEPT !.status = "Cancelled", !.ended_at = Some(now),
                !.cancelled = TRUE]

\* mark_running_run_cancelled, one run.
CancelledIfRunning(run, now) ==
    IF run.status = "Running"
    THEN [run EXCEPT !.status = "Cancelled", !.ended_at = Some(now),
                     !.cancelled = TRUE]
    ELSE run

\* run.pid.map(is_process_alive).unwrap_or(false)
ProcessAlive(run) == run.pid # None /\ run.pid[1] \in alive

\* A recovery that takes a run without a live process for resumable too.
RecoveredAlwaysResumable(run, now) ==
    IF run.status = "Running" THEN [run EXCEPT !.status = "Resumable"]
    ELSE run

\* A recovery that stamps ended_at on the runs it makes resumable.
RecoveredEnded(run, now) ==
    IF run.status # "Running" THEN run
    ELSE IF ProcessAlive(run)
    THEN [run EXCEPT !.status = "Resumable", !.ended_at = Some(now)]
    ELSE Crashed(run, now)

\* recover_incomplete_runs, one run.
Recovered(run, now) ==
    IF run.status # "Running" THEN run
    ELSE IF ProcessAlive(run) THEN [run EXCEPT !.status = "Resumable"]
    ELSE Crashed(run, now)

\* The RecoveredRun values pushed for the runs of one session, in run order.
RECURSIVE RecoveredRuns(_, _)
RecoveredRuns(s, rs) ==
    IF rs = <<>> THEN <<>>
    ELSE (IF Head(rs).status = "Running"
          THEN <<[session_id |-> s, run_id |-> Head(rs).run_id,
                  resumable |-> ProcessAlive(Head(rs))]>>
          ELSE <<>>)
         \o RecoveredRuns(s, Tail(rs))

RunOp(op) == [op |-> op, recovered |-> <<>>]

InitRuns ==
    /\ metadata = [s \in Sessions |-> <<>>]
    /\ writers = {}
    /\ alive = {}
    /\ rOp = RunOp("init")

\* start_run: a run entry is pushed and its writer returned.
StartRun ==
    /\ RunCount < MaxRuns
    /\ \E s \in Sessions, now \in Timestamps :
        /\ metadata' = [metadata EXCEPT
               ![s] = Append(@, NewRunEntry(RunCount + 1, now))]
        /\ writers' = writers \cup {[session_id |-> s, run_id |-> RunCount + 1]}
    /\ rOp' = RunOp("other")
    /\ UNCHANGED alive
    /\ UNCHANGED outsideRuns

\* RunLogWriter::set_pid
SetPid ==
    /\ \E w \in writers, pid \in Pids :
        metadata' = [metadata EXCEPT
            ![w.session_id] =
                [i \in 1..Len(@) |->
                    IF @[i].run_id = w.run_id
                    THEN [@[i] EXCEPT !.pid = Some(pid)]
                    ELSE @[i]]]
    /\ rOp' = RunOp("other")
    /\ UNCHANGED <<writers, alive>>
    /\ UNCHANGED outsideRuns

\* RunLogWriter::complete
Complete ==
    /\ \E w \in writers, now \in Timestamps, sid \in {None, Some("thread")} :
        metadata' = [metadata EXCEPT
            ![w.session_id] =
                [i \in 1..Len(@) |->
                    IF @[i].run_id = w.run_id
                    THEN Completed(@[i], now, sid)
                    ELSE @[i]]]
    /\ rOp' = RunOp("other")
    /\ UNCHANGED <<writers, alive>>
    /\ UNCHANGED outsideRuns

\* RunLogWriter::cancel
CancelRun ==
    /\ \E w \in writers, now \in Timestamps, asst \in {None, Some(GivenId)} :
        metadata' = [metadata EXCEPT
            ![w.session_id] =
                [i \in 1..Len(@) |->
                    IF @[i].run_id = w.run_id
                    THEN Cancelled(@[i], now, asst)
                    ELSE @[i]]]
    /\ rOp' = RunOp("other")
    /\ UNCHANGED <<writers, alive>>
    /\ UNCHANGED outsideRuns

\* RunLogWriter::crash
Crash ==
    /\ \E w \in writers, now \in Timestamps :
        metadata' = [metadata EXCEPT
            ![w.session_id] =
                [i \in 1..Len(@) |->
                    IF @[i].run_id = w.run_id
                    THEN Crashed(@[i], now)
                    ELSE @[i]]]
    /\ rOp' = RunOp("other")
    /\ UNCHANGED <<writers, alive>>
    /\ UNCHANGED outsideRuns

\* RunLogWriter::resume: a writer for an existing run of the session.
ResumeWriter ==
    /\ \E s \in Sessions :
        \E i \in 1..Len(metadata[s]) :
            /\ [session_id |-> s, run_id |-> metadata[s][i].run_id]
                   \notin writers
            /\ writers' = writers
                   \cup {[session_id |-> s, run_id |-> metadata[s][i].run_id]}
    /\ rOp' = RunOp("other")
    /\ UNCHANGED <<metadata, alive>>
    /\ UNCHANGED outsideRuns

\* mark_running_run_cancelled
MarkRunningRunCancelled ==
    /\ \E s \in Sessions, now \in Timestamps :
        metadata' = [metadata EXCEPT
            ![s] = [i \in 1..Len(@) |-> CancelledIfRunning(@[i], now)]]
    /\ rOp' = RunOp("other")
    /\ UNCHANGED <<writers, alive>>
    /\ UNCHANGED outsideRuns

\* recover_incomplete_runs: every session, in the order
\* list_all_session_ids gives them.
RecoverIncompleteRuns ==
    /\ \E now \in Timestamps :
        metadata' = [s \in Sessions |->
            [i \in 1..Len(metadata[s]) |-> Recovered(metadata[s][i], now)]]
    /\ \E first \in Sessions :
        \E second \in Sessions \ {first} :
            rOp' = [op |-> "recover_incomplete_runs",
                    recovered |-> RecoveredRuns(first, metadata[first])
                                  \o RecoveredRuns(second, metadata[second])]
    /\ UNCHANGED <<writers, alive>>
    /\ UNCHANGED outsideRuns

\* The app exits: its writers are gone, the detached processes stay.
AppRestarts ==
    /\ writers # {}
    /\ writers' = {}
    /\ rOp' = RunOp("other")
    /\ UNCHANGED <<metadata, alive>>
    /\ UNCHANGED outsideRuns

\* A detached process starts or exits.
ProcessChanges ==
    /\ \E pid \in Pids :
        alive' = IF pid \in alive THEN alive \ {pid} ELSE alive \cup {pid}
    /\ rOp' = RunOp("other")
    /\ UNCHANGED <<metadata, writers>>
    /\ UNCHANGED outsideRuns

(***************************************************************************)
(* Claims about the run log store.                                         *)
(***************************************************************************)
\* The places of the runs in the metadata.
RunPlaces == {p \in Sessions \X (1..MaxRuns) : p[2] <= Len(metadata[p[1]])}
RunAt(p) == metadata[p[1]][p[2]]
StatusesNow == {RunAt(p).status : p \in RunPlaces}

\* C19 as stated: a run's ended_at is set if and only if its status is not
\* Running.
C19_EndedIffNotRunning ==
    \A p \in RunPlaces : RunAt(p).ended_at # None <=> RunAt(p).status # "Running"

\* C19 amended: a run's ended_at is set if and only if its status is neither
\* Running nor Resumable: recovery leaves a run it finds alive without an
\* end.
C19_EndedIffNotRunningNorResumable ==
    \A p \in RunPlaces :
        RunAt(p).ended_at # None
            <=> RunAt(p).status \notin {"Running", "Resumable"}

\* Two runs, one recovered as resumable and still without an end, the other
\* completed with one.
C19_Witness ==
    /\ \E p \in RunPlaces :
        RunAt(p).status = "Resumable" /\ RunAt(p).ended_at = None
    /\ \E p \in RunPlaces :
        RunAt(p).status = "Completed" /\ RunAt(p).ended_at # None

\* The step is a call of recover_incomplete_runs.
IsRecovery == rOp'.op = "recover_incomplete_runs"

\* The entries of the report for the run at place p.
ReportsOf(p) ==
    {k \in 1..Len(rOp'.recovered) :
        /\ rOp'.recovered[k].session_id = p[1]
        /\ rOp'.recovered[k].run_id = RunAt(p).run_id}

\* C20: recover_incomplete_runs moves every Running run to Resumable when
\* its recorded PID is alive and to Crashed otherwise, a run without PID
\* included; it leaves every other run as it is, reports each moved run once
\* with resumable set accordingly, and leaves no run Running.
C20_Recovery ==
    [][IsRecovery =>
        /\ \A s \in Sessions : Len(metadata'[s]) = Len(metadata[s])
        /\ \A p \in RunPlaces :
            LET old == RunAt(p)
                new == metadata'[p[1]][p[2]]
                pidAlive == \E pid \in alive : old.pid = Some(pid)
            IN /\ new.run_id = old.run_id
               /\ new.status # "Running"
               /\ old.status # "Running"
                    => new = old /\ ReportsOf(p) = {}
               /\ old.status = "Running"
                    => /\ new.status
                           = (IF pidAlive THEN "Resumable" ELSE "Crashed")
                       /\ Cardinality(ReportsOf(p)) = 1
                       /\ \A k \in ReportsOf(p) :
                              rOp'.recovered[k].resumable = pidAlive
        /\ Len(rOp'.recovered)
             = Cardinality({p \in RunPlaces : RunAt(p).status = "Running"})
    ]_vars

\* A recovery that found one run alive and one dead: two reports, and the
\* runs are Resumable and Crashed.
C20_Witness ==
    /\ rOp.op = "recover_incomplete_runs"
    /\ Len(rOp.recovered) = 2
    /\ \E k \in 1..2 : rOp.recovered[k].resumable
    /\ \E k \in 1..2 : ~rOp.recovered[k].resumable
    /\ StatusesNow = {"Resumable", "Crashed"}

TerminalStatuses == {"Completed", "Cancelled", "Crashed"}

\* The run at place p after the step.
RunAfter(p) == metadata'[p[1]][p[2]]

MaxLoadedRuns == 1

\* "*Response lost - Jean was closed before receiving a response.*"
ResponseLost ==
    <<"*Response lost - Jean was closed before receiving a response.*">>

\* What read_run_log can return for a run: nothing (no file), the header
\* alone, the header and events with or without text and commands, a line
\* that does not decode.
StoredLogs ==
    LET text == EventLine(ItemUpdated([type |-> "agent_message", id |-> "m1",
                                       text |-> <<"a">>]))
        blank == EventLine(ItemUpdated([type |-> "agent_message", id |-> "m1",
                                        text |-> <<>>]))
        cmd == EventLine(ItemUpdated([type |-> "command_execution",
                                      id |-> "c1", command |-> "ls",
                                      aggregated_output |-> "out"]))
    IN {<<>>, <<MetaLine>>, <<MetaLine, text>>, <<MetaLine, blank>>,
        <<MetaLine, cmd>>, <<MetaLine, cmd, text>>,
        <<MetaLine, BadJsonLine>>, <<MetaLine, EventLine(TurnFailed)>>}

\* is_undo_send
IsUndoSend(run) ==
    run.status = "Cancelled" /\ run.assistant_message_id = None

\* The user message pushed for a run.
UserMessage(run) == [role |-> "user", run_id |-> run.run_id]

\* parse_run_to_message: the ChatMessage built from the lines of a run.
ParseRunToMessage(lines, run) ==
    LET m == ParseCodexRunToMessage(NewMessage, lines)
    IN [role |-> "assistant", run_id |-> run.run_id,
        id |-> IF run.assistant_message_id # None
               THEN run.assistant_message_id[1] ELSE FreshId,
        content |-> m.content, tool_calls |-> m.tool_calls,
        content_blocks |-> m.content_blocks,
        cancelled |-> run.cancelled, recovered |-> run.recovered]

\* A loader that puts the placeholder wherever the content is empty.
AssistantMessagePlaceholderForTools(lines, run) ==
    LET msg == ParseRunToMessage(lines, run)
    IN IF run.status = "Crashed" /\ msg.content = <<>>
       THEN [msg EXCEPT !.content = ResponseLost]
       ELSE msg

\* The assistant message pushed for a run that is not Running: a crashed run
\* without content and without tool calls gets the placeholder.
AssistantMessage(lines, run) ==
    LET msg == ParseRunToMessage(lines, run)
    IN IF run.status = "Crashed" /\ msg.content = <<>> /\ msg.tool_calls = <<>>
       THEN [msg EXCEPT !.content = ResponseLost]
       ELSE msg

\* load_session_messages: the loop over metadata.runs.
RECURSIVE MessagesOfRuns(_, _)
MessagesOfRuns(runs, logs) ==
    IF runs = <<>> THEN <<>>
    ELSE LET run == Head(runs) IN
         (IF IsUndoSend(run) THEN <<>> ELSE <<UserMessage(run)>>)
         \o (IF run.status # "Running" /\ ~IsUndoSend(run)
             THEN <<AssistantMessage(Head(logs), run)>> ELSE <<>>)
         \o MessagesOfRuns(Tail(runs), Tail(logs))

InitLoad == loaded = None

\* load_session_messages for one session, over what its run logs hold.
LoadSessionMessages ==
    /\ \E s \in Sessions :
        \E logs \in [1..Len(metadata[s]) -> StoredLogs] :
            loaded' = Some([session_id |-> s, runs |-> metadata[s],
                            logs |-> logs,
                            messages |-> MessagesOfRuns(metadata[s], logs)])
    /\ rOp' = RunOp("other")
    /\ UNCHANGED <<metadata, writers, alive>>
    /\ UNCHANGED outsideLoad

\* The store takes a step that leaves it within the bound of the loader.
WithinLoadBound == RunCount' <= MaxLoadedRuns

(***************************************************************************)
(* Claims about message loading.                                           *)
(***************************************************************************)
\* The places of the runs of the session last loaded.
LoadedPlaces ==
    IF loaded = None THEN {}
    ELSE {i \in 1..MaxRuns : i <= Len(loaded[1].logs)}
LoadedRun(i) == loaded[1].runs[i]

\* The assistant messages returned for the run at place i.
AssistantMessagesOf(i) ==
    {k \in 1..Len(loaded[1].messages) :
        /\ loaded[1].messages[k].role = "assistant"
        /\ loaded[1].messages[k].run_id = LoadedRun(i).run_id}

\* What replay makes of the lines read for the run at place i.
Reconstructed(i) == ParseCodexRunToMessage(NewMessage, loaded[1].logs[i])

\* Every Crashed run has an assistant_message_id.
CrashedRunsHaveMessageId ==
    \A p \in RunPlaces :
        RunAt(p).status = "Crashed" => RunAt(p).assistant_message_id # None

\* C21 as stated: for every Crashed run whose reconstructed content is empty,
\* load_session_messages returns one assistant message whose content is the
\* placeholder; every Crashed run has an assistant_message_id.
C21_Placeholder ==
    /\ CrashedRunsHaveMessageId
    /\ loaded # None =>
        \A i \in LoadedPlaces :
            (LoadedRun(i).status = "Crashed"
                /\ Reconstructed(i).content = <<>>) =>
                /\ Cardinality(AssistantMessagesOf(i)) = 1
                /\ \A k \in AssistantMessagesOf(i) :
                    loaded[1].messages[k].content = ResponseLost

\* C21 amended: for every Crashed run reconstructed without content and
\* without tool calls, load_session_messages returns one assistant message
\* whose content is the placeholder and whose id is the run's
\* assistant_message_id; for every other run that is not Running and was not
\* undone it returns the reconstructed content as it is; every Crashed run
\* has an assistant_message_id.
C21_PlaceholderWithoutToolCalls ==
    /\ CrashedRunsHaveMessageId
    /\ loaded # None =>
        \A i \in LoadedPlaces :
            LET run == LoadedRun(i)
                rebuilt == Reconstructed(i)
                lost == /\ run.status = "Crashed"
                        /\ rebuilt.content = <<>>
                        /\ rebuilt.tool_calls = <<>>
            IN /\ Cardinality(AssistantMessagesOf(i))
                    = (IF run.status = "Running" \/ IsUndoSend(run)
                       THEN 0 ELSE 1)
               /\ \A k \in AssistantMessagesOf(i) :
                    LET msg == loaded[1].messages[k]
                    IN /\ msg.content
                            = (IF lost THEN ResponseLost ELSE rebuilt.content)
                       /\ msg.tool_calls = rebuilt.tool_calls
                       /\ run.status = "Crashed"
                            => Some(msg.id) = run.assistant_message_id

\* A crashed run whose log holds the header alone was loaded: the placeholder
\* came back under the id the crash gave the run.
C21_Witness ==
    /\ loaded # None
    /\ \E i \in LoadedPlaces :
        /\ LoadedRun(i).status = "Crashed"
        /\ loaded[1].logs[i] = <<MetaLine>>
        /\ \E k \in AssistantMessagesOf(i) :
            /\ loaded[1].messages[k].content = ResponseLost
            /\ loaded[1].messages[k].id = FreshId

\* The step is mark_running_run_cancelled on session s, which has a run that
\* is Running.
MarksRunning(s) ==
    /\ \E i \in 1..Len(metadata[s]) : metadata[s][i].status = "Running"
    /\ \E now \in Timestamps :
        metadata'[s] = [i \in 1..Len(metadata[s]) |->
                           CancelledIfRunning(metadata[s][i], now)]

\* The messages returned for the run at place i.
MessagesOf(i) ==
    {k \in 1..Len(loaded[1].messages) :
        loaded[1].messages[k].run_id = LoadedRun(i).run_id}

\* C33 as stated: mark_running_run_cancelled, applied to a run created by
\* start_run that is still Running, leaves the run Cancelled with
\* assistant_message_id None (the undo_send case), so that
\* load_session_messages returns neither the user message nor an assistant
\* message for that run.
C33_MarkedRunIsUndoSend ==
    [](loaded # None =>
          \A i \in LoadedPlaces :
              (LoadedRun(i).status = "Cancelled" /\ LoadedRun(i).cancelled
               /\ LoadedRun(i).assistant_message_id \notin {Some(GivenId)})
                  => MessagesOf(i) = {})
    /\ [][\A s \in Sessions :
            MarksRunning(s) =>
                \A i \in 1..Len(metadata[s]) :
                    metadata[s][i].status = "Running" =>
                        /\ metadata'[s][i].status = "Cancelled"
                        /\ metadata'[s][i].assistant_message_id = None]_vars

\* C33, what the code does: mark_running_run_cancelled leaves the run
\* Cancelled with the assistant_message_id that start_run gave it, and
\* load_session_messages returns the user message and one assistant message
\* for it; it returns neither for a Cancelled run without the id.
C33_MarkedRunKeepsMessageId ==
    [](loaded # None =>
          \A i \in LoadedPlaces :
              LoadedRun(i).status = "Cancelled" =>
                  IF LoadedRun(i).assistant_message_id = None
                  THEN MessagesOf(i) = {}
                  ELSE /\ Cardinality(MessagesOf(i)) = 2
                       /\ Cardinality(AssistantMessagesOf(i)) = 1)
    /\ [][\A s \in Sessions :
            MarksRunning(s) =>
                \A i \in 1..Len(metadata[s]) :
                    metadata[s][i].status = "Running" =>
                        /\ metadata'[s][i].status = "Cancelled"
                        /\ metadata'[s][i].cancelled
                        /\ metadata'[s][i].ended_at # None
                        /\ metadata'[s][i].assistant_message_id
                               = Some(UpfrontId)]_vars

\* A run cancelled by mark_running_run_cancelled, which alone leaves a
\* Cancelled run with the id of start_run, was loaded with its user message
\* and an assistant message.
C33_Witness ==
    /\ loaded # None
    /\ \E i \in LoadedPlaces :
        /\ LoadedRun(i).status = "Cancelled"
        /\ LoadedRun(i).assistant_message_id = Some(UpfrontId)
        /\ Cardinality(MessagesOf(i)) = 2

(***************************************************************************)
(* -------------------------  Process registry  -------------------------- *)
(* execute_codex_detached registers the PID of its child under the session  *)
(* id, tail_codex_output asks the registry at every poll, and               *)
(* execute_codex_detached unregisters the session id when the tailing       *)
(* returns (chat/codex.rs).  The registry itself is the mapping from        *)
(* session id to PID of the specification: is-running is a presence check,  *)
(* register inserts, unregister and cancellation remove the session's entry. *)
(* Each run has its supervisor thread and its own PID; runs start in order. *)
(***************************************************************************)

\* Most runs, each with a supervisor of its own.
MaxSupervisors == 3

SupervisedRuns == 1..MaxSupervisors

\* The PID of the child of run r.
PidOf(r) == 100 + r

InitRegistry ==
    /\ registry = [s \in Sessions |-> None]
    /\ supervisors =
        [r \in SupervisedRuns |->
            [session_id |-> "s1", pid |-> PidOf(r), at |-> "idle",
             left |-> "none", cancel_requested |-> FALSE, missed |-> FALSE]]

\* registry::is_process_running
IsProcessRunning(session_id) == registry[session_id] # None

\* execute_codex_detached: register_process(session_id, pid), then tailing.
RegisterProcess ==
    /\ \E r \in SupervisedRuns, s \in Sessions :
        /\ supervisors[r].at = "idle"
        /\ \A q \in 1..(r - 1) : supervisors[q].at # "idle"
        /\ registry' = [registry EXCEPT ![s] = Some(PidOf(r))]
        /\ supervisors' = [supervisors EXCEPT
               ![r] = [@ EXCEPT !.session_id = s, !.at = "loop"]]
    /\ UNCHANGED outsideRegistry

\* execute_codex_detached returns Err before register_process: the binary is
\* missing, or spawn_detached_codex fails.
FailsBeforeSpawn ==
    /\ \E r \in SupervisedRuns, s \in Sessions :
        /\ supervisors[r].at = "idle"
        /\ \A q \in 1..(r - 1) : supervisors[q].at # "idle"
        /\ supervisors' = [supervisors EXCEPT
               ![r] = [@ EXCEPT !.session_id = s, !.at = "failed"]]
    /\ UNCHANGED registry
    /\ UNCHANGED outsideRegistry

\* Cancellation: the session's entry is removed.  History: the run whose PID
\* was registered is the run that was cancelled.
CancelProcess ==
    /\ \E s \in Sessions :
        /\ IsProcessRunning(s)
        /\ registry' = [registry EXCEPT ![s] = None]
        /\ supervisors' =
            [r \in SupervisedRuns |->
                IF supervisors[r].at = "loop" /\ registry[s] = Some(PidOf(r))
                THEN [supervisors[r] EXCEPT !.cancel_requested = TRUE]
                ELSE supervisors[r]]
    /\ UNCHANGED outsideRegistry

\* tail_codex_output: the registry check of one iteration.  History: a
\* cancelled run that finds its session registered has missed its cancel.
PollRegistry ==
    /\ \E r \in SupervisedRuns :
        /\ supervisors[r].at = "loop"
        /\ supervisors' = [supervisors EXCEPT
               ![r] = IF ~IsProcessRunning(@.session_id)
                      THEN [@ EXCEPT !.at = "returned", !.left = "cancelled"]
                      ELSE [@ EXCEPT !.missed = @ \/ supervisors[r].cancel_requested]]
    /\ UNCHANGED registry
    /\ UNCHANGED outsideRegistry

\* tail_codex_output leaves its loop before the registry check: the turn
\* completed or failed.
TurnEnds ==
    /\ \E r \in SupervisedRuns :
        /\ supervisors[r].at = "loop"
        /\ supervisors' = [supervisors EXCEPT
               ![r] = [@ EXCEPT !.at = "returned", !.left = "ended"]]
    /\ UNCHANGED registry
    /\ UNCHANGED outsideRegistry

\* An execute_codex_detached that returns without unregister_process.
ReturnsRegistered ==
    /\ \E r \in SupervisedRuns :
        /\ supervisors[r].at = "returned"
        /\ supervisors' = [supervisors EXCEPT ![r] = [@ EXCEPT !.at = "exited"]]
    /\ UNCHANGED registry
    /\ UNCHANGED outsideRegistry

\* execute_codex_detached: unregister_process(session_id) once the tailing
\* has returned, Ok or Err.
UnregisterProcess ==
    /\ \E r \in SupervisedRuns :
        /\ supervisors[r].at = "returned"
        /\ registry' = [registry EXCEPT ![supervisors[r].session_id] = None]
        /\ supervisors' = [supervisors EXCEPT ![r] = [@ EXCEPT !.at = "exited"]]
    /\ UNCHANGED outsideRegistry

(***************************************************************************)
(* Claims about the process registry.                                      *)
(***************************************************************************)
\* The supervisor of run r never found its session registered after its
\* cancel, and left its loop as cancelled only if it was cancelled.
CancelReachesOnly(r) ==
    /\ ~supervisors[r].missed
    /\ supervisors[r].left = "cancelled" => supervisors[r].cancel_requested

\* Another run of the session of run r has started.
SharesSession(r) ==
    \E q \in SupervisedRuns \ {r} :
        /\ supervisors[q].at \notin {"idle", "failed"}
        /\ supervisors[q].session_id = supervisors[r].session_id

\* C25 as stated: in every interleaving of cancels, registrations of later
\* runs of the same session id and polls, the supervisor whose run was
\* cancelled finds the session not running at its next poll and leaves its
\* loop as cancelled, and no supervisor finds its session not running
\* because another supervisor of the session unregistered it.
C25_CancelAcrossRuns ==
    \A r \in SupervisedRuns : CancelReachesOnly(r)

\* C25, what the registry does keep: a run whose session has had no other
\* run is reached by its cancel at its next poll, and by no other.
C25_CancelWithinOneRun ==
    \A r \in SupervisedRuns : ~SharesSession(r) => CancelReachesOnly(r)

\* Two runs of one session: the first was cancelled and found the session
\* registered again by the second, and the second left its loop as cancelled
\* without having been cancelled.
C25_Witness ==
    \E r, q \in SupervisedRuns :
        /\ r < q
        /\ supervisors[r].session_id = supervisors[q].session_id
        /\ supervisors[r].cancel_requested /\ supervisors[r].missed
        /\ supervisors[q].left = "cancelled"
        /\ ~supervisors[q].cancel_requested

\* C40: when execute_codex_detached returns after the PID was registered,
\* with Ok or with an error, the session id is not in the process registry;
\* a call that fails before the spawn (missing binary, spawn failure)
\* registers nothing, then and later.
C40_UnregisteredOnReturn ==
    /\ [](\A r \in SupervisedRuns :
            supervisors[r].at = "failed" =>
                registry[supervisors[r].session_id] # Some(PidOf(r)))
    /\ [][\A r \in SupervisedRuns :
            /\ (supervisors[r].at # "exited" /\ supervisors'[r].at = "exited")
                  => /\ supervisors[r].left \in {"ended", "cancelled"}
                     /\ registry'[supervisors[r].session_id] = None
            /\ (supervisors[r].at # "failed" /\ supervisors'[r].at = "failed")
                  => registry' = registry
            /\ supervisors[r].at = "failed" => supervisors'[r].at = "failed"]_vars

\* One run of a session failed before the spawn while another run of the
\* session was registered; that run has ended its turn and returned, and
\* the session is not registered.
C40_Witness ==
    \E r, q \in SupervisedRuns :
        /\ r < q
        /\ supervisors[r].session_id = supervisors[q].session_id
        /\ supervisors[r].at = "exited" /\ supervisors[r].left = "ended"
        /\ supervisors[q].at = "failed"
        /\ registry[supervisors[r].session_id] = None

(***************************************************************************)
(* ---------------  Interleaved metadata operations  --------------------- *)
(* mark_running_run_cancelled and recover_incomplete_runs load the          *)
(* metadata, change their copy and save it (chat/run_log.rs); the other     *)
(* operations of the run store change the file in one step under the lock   *)
(* of with_metadata_mut.                                                    *)
(***************************************************************************)

\* Most operations between their load and their save.
MaxInflight == 1

\* Most runs started while operations load and save in steps of their own.
MaxRacedRuns == 1

InitRaces ==
    /\ inflight = {}
    /\ saved = None

\* What the operation does to the runs it has loaded.
Modified(w, runs) ==
    [i \in 1..Len(runs) |->
        IF w.op = "mark_running_run_cancelled"
        THEN CancelledIfRunning(runs[i], w.now)
        ELSE Recovered(runs[i], w.now)]

Statuses(runs) == [i \in 1..Len(runs) |-> runs[i].status]

\* load_metadata(app, session_id) of an operation; a session without
\* metadata ends the operation at once.
LoadMetadata(op) ==
    /\ Cardinality(inflight) < MaxInflight
    /\ \E s \in Sessions, now \in Timestamps :
        /\ metadata[s] # <<>>
        /\ inflight' = inflight \cup
               {[op |-> op, session_id |-> s, now |-> now, seen |-> metadata[s]]}
        /\ inflight' # inflight
    /\ rOp' = RunOp("other")
    /\ UNCHANGED <<metadata, writers, alive, saved>>
    /\ UNCHANGED outsideRaces

\* The rest of the operation: its copy is changed, and saved if modified.
SaveMetadata(op) ==
    /\ \E w \in inflight :
        /\ w.op = op
        /\ inflight' = inflight \ {w}
        /\ IF Modified(w, w.seen) # w.seen
           THEN /\ metadata' = [metadata EXCEPT
                       ![w.session_id] = Modified(w, w.seen)]
                /\ saved' = Some([op |-> op,
                                  over |-> Statuses(metadata[w.session_id]),
                                  wrote |-> Statuses(Modified(w, w.seen)),
                                  over_current |->
                                      Modified(w, w.seen)
                                          = Modified(w, metadata[w.session_id])])
           ELSE UNCHANGED <<metadata, saved>>
    /\ rOp' = RunOp("other")
    /\ UNCHANGED <<writers, alive>>
    /\ UNCHANGED outsideRaces

\* mark_running_run_cancelled, from load_metadata to save_metadata.
MarkRunningRunCancelledLoads == LoadMetadata("mark_running_run_cancelled")
MarkRunningRunCancelledSaves == SaveMetadata("mark_running_run_cancelled")

\* recover_incomplete_runs, one session of its loop, from load_metadata to
\* save_metadata.
RecoverIncompleteRunsLoads == LoadMetadata("recover_incomplete_runs")
RecoverIncompleteRunsSaves == SaveMetadata("recover_incomplete_runs")

(***************************************************************************)
(* Claims about interleaved metadata operations.                           *)
(***************************************************************************)
WithinRaceBound == RunCount' <= MaxRacedRuns

\* The save wrote what the operation makes of the metadata it wrote over.
SavedOverCurrent == saved # None => saved[1].over_current

\* C30 as stated: every read-modify-write of a session's metadata (start_run,
\* set_pid, complete, cancel, crash, mark_running_run_cancelled,
\* recover_incomplete_runs) is atomic with respect to the others: in no
\* interleaving of two of them on one session is the update of one lost.
C30_NoLostUpdate == SavedOverCurrent

\* mark_running_run_cancelled loaded a running run, the writer completed the
\* run, and the save put the run back as cancelled: the completion is lost.
C30_Witness ==
    /\ saved # None
    /\ saved[1].op = "mark_running_run_cancelled"
    /\ ~saved[1].over_current
    /\ \E i \in DOMAIN saved[1].over :
        /\ saved[1].over[i] = "Completed"
        /\ saved[1].wrote[i] = "Cancelled"

(***************************************************************************)
(* ------------------  Run log writer and resume tokens  ----------------- *)
(* The metadata of one session in full, with the resume tokens of the two  *)
(* agents at session level and in each run, under the operations of        *)
(* RunLogWriter (chat/run_log.rs).  A writer holds a run id; the run may   *)
(* be gone from the metadata it writes to.                                 *)
(***************************************************************************)

\* Most runs started in the session.
MaxWriterRuns == 1

Agents == {"Claude", "Codex"}

\* agent_session_id: the thread id of Codex or the session id of Claude.
AgentSessionIds == {None, Some("thread-1"), Some("thread-2")}

\* The run ids that writers hold: those of the runs started and one that
\* the metadata never holds.
WriterRunIds == 1..(MaxWriterRuns + 1)

\* start_run: the RunEntry pushed, with its agent and resume tokens.
RunEntryOf(id, now, agent) ==
    [run_id |-> id, started_at |-> now, ended_at |-> None,
     status |-> "Running", assistant_message_id |-> Some(UpfrontId),
     cancelled |-> FALSE, recovered |-> FALSE, agent |-> agent,
     claude_session_id |-> None, codex_session_id |-> None, pid |-> None]

\* metadata.find_run_mut(run_id): the place of the first run with the id,
\* 0 for None.
find_run_mut(md, run_id) ==
    IF \E i \in 1..Len(md.runs) : md.runs[i].run_id = run_id
    THEN CHOOSE i \in 1..Len(md.runs) :
            /\ md.runs[i].run_id = run_id
            /\ \A j \in 1..(i - 1) : md.runs[j].run_id # run_id
    ELSE 0

\* The closure of complete, on the run found.
CompletedAs(run, now, agent, sid) ==
    IF agent = "Claude"
    THEN [Completed(run, now, run.codex_session_id) EXCEPT
             !.agent = agent, !.claude_session_id = sid]
    ELSE [Completed(run, now, sid) EXCEPT !.agent = agent]

\* A complete that stores the agent session id at session level as it is
\* given, None too.
complete_storing_none(md, run_id, now, agent, agent_session_id) ==
    LET k == find_run_mut(md, run_id)
        md1 == [md EXCEPT !.runs =
                   [i \in 1..Len(@) |->
                       IF i = k
                       THEN CompletedAs(@[i], now, agent, agent_session_id)
                       ELSE @[i]]]
    IN IF agent = "Claude"
       THEN [md1 EXCEPT !.claude_session_id = agent_session_id]
       ELSE [md1 EXCEPT !.codex_session_id = agent_session_id]

\* RunLogWriter::complete: the closure given to with_metadata_mut.
complete(md, run_id, now, agent, agent_session_id) ==
    LET k == find_run_mut(md, run_id)
        md1 == [md EXCEPT !.runs =
                   [i \in 1..Len(@) |->
                       IF i = k
                       THEN CompletedAs(@[i], now, agent, agent_session_id)
                       ELSE @[i]]]
    IN IF agent_session_id = None THEN md1
       ELSE IF agent = "Claude"
       THEN [md1 EXCEPT !.claude_session_id = agent_session_id]
       ELSE [md1 EXCEPT !.codex_session_id = agent_session_id]

\* RunLogWriter::cancel: the closure.
cancel(md, run_id, now, asst_id) ==
    LET k == find_run_mut(md, run_id)
    IN [md EXCEPT !.runs =
           [i \in 1..Len(@) |->
               IF i = k THEN Cancelled(@[i], now, asst_id) ELSE @[i]]]

\* RunLogWriter::crash: the closure.
crash(md, run_id, now) ==
    LET k == find_run_mut(md, run_id)
    IN [md EXCEPT !.runs =
           [i \in 1..Len(@) |->
               IF i = k THEN Crashed(@[i], now) ELSE @[i]]]

\* RunLogWriter::set_pid: the closure.
set_pid(md, run_id, pid) ==
    LET k == find_run_mut(md, run_id)
    IN [md EXCEPT !.runs =
           [i \in 1..Len(@) |->
               IF i = k THEN [@[i] EXCEPT !.pid = Some(pid)] ELSE @[i]]]

\* A call of a writer and what it returned; with_metadata_mut hands the
\* closure's Ok back.
Returned(op, run_id, agent, agent_session_id) ==
    [op |-> op, run_id |-> run_id, agent |-> agent,
     agent_session_id |-> agent_session_id, result |-> "Ok"]

InitWriter ==
    /\ sessionMetadata = [runs |-> <<>>, claude_session_id |-> None,
                          codex_session_id |-> None]
    /\ returned = Returned("none", 0, "Codex", None)

WriterStartRun ==
    /\ Len(sessionMetadata.runs) < MaxWriterRuns
    /\ \E agent \in Agents, now \in Timestamps :
        /\ sessionMetadata' = [sessionMetadata EXCEPT !.runs =
               Append(@, RunEntryOf(Len(@) + 1, now, agent))]
        /\ returned' = Returned("start_run", Len(sessionMetadata.runs) + 1,
                                agent, None)
    /\ UNCHANGED outsideWriter

WriterComplete ==
    /\ \E run_id \in WriterRunIds, now \in Timestamps, agent \in Agents,
          agent_session_id \in AgentSessionIds :
        /\ sessionMetadata' = complete(sessionMetadata, run_id, now, agent,
                                       agent_session_id)
        /\ returned' = Returned("complete", run_id, agent, agent_session_id)
    /\ UNCHANGED outsideWriter

WriterCancel ==
    /\ \E run_id \in WriterRunIds, now \in Timestamps,
          asst_id \in {None, Some(GivenId)} :
        /\ sessionMetadata' = cancel(sessionMetadata, run_id, now, asst_id)
        /\ returned' = Returned("cancel", run_id, "Codex", None)
    /\ UNCHANGED outsideWriter

WriterCrash ==
    /\ \E run_id \in WriterRunIds, now \in Timestamps :
        /\ sessionMetadata' = crash(sessionMetadata, run_id, now)
        /\ returned' = Returned("crash", run_id, "Codex", None)
    /\ UNCHANGED outsideWriter

WriterSetPid ==
    /\ \E run_id \in WriterRunIds, pid \in Pids :
        /\ sessionMetadata' = set_pid(sessionMetadata, run_id, pid)
        /\ returned' = Returned("set_pid", run_id, "Codex", None)
    /\ UNCHANGED outsideWriter

(***************************************************************************)
(* Claims about the run log writer and the resume tokens.                  *)
(***************************************************************************)
\* The Claude resume tokens of the runs.
ClaudeTokens(md) == [i \in 1..Len(md.runs) |-> md.runs[i].claude_session_id]

\* C38: complete for agent Codex with no agent session id leaves the Codex
\* resume token of the session unchanged, and with or without one it leaves
\* the Claude resume token of the session and of every run unchanged;
\* complete, cancel, crash and set_pid of a writer whose run id is not in the
\* metadata change no run entry and return Ok.
C38_TokensKept ==
    [][/\ (returned'.op = "complete" /\ returned'.agent = "Codex") =>
            /\ returned'.agent_session_id = None =>
                  sessionMetadata'.codex_session_id
                      = sessionMetadata.codex_session_id
            /\ sessionMetadata'.claude_session_id
                   = sessionMetadata.claude_session_id
            /\ ClaudeTokens(sessionMetadata') = ClaudeTokens(sessionMetadata)
       /\ (/\ returned'.op \in {"complete", "cancel", "crash", "set_pid"}
           /\ find_run_mut(sessionMetadata, returned'.run_id) = 0) =>
            /\ sessionMetadata'.runs = sessionMetadata.runs
            /\ returned'.result = "Ok"]_vars

\* A run was completed for Codex without an agent session id in a session
\* that has a resume token of each agent, and the run one of Claude: the
\* tokens of the session and the run's Claude token are still there, the
\* run's Codex token is None.
C38_Witness ==
    /\ returned = Returned("complete", 1, "Codex", None)
    /\ sessionMetadata.codex_session_id = Some("thread-2")
    /\ sessionMetadata.claude_session_id = Some("thread-1")
    /\ Len(sessionMetadata.runs) = 1
    /\ sessionMetadata.runs[1].claude_session_id = Some("thread-1")
    /\ sessionMetadata.runs[1].status = "Completed"
    /\ sessionMetadata.runs[1].agent = "Codex"
    /\ sessionMetadata.runs[1].codex_session_id = None

(***************************************************************************)
(* Specifications.                                                         *)
(***************************************************************************)
Init ==
    /\ InitTail
    /\ InitFold
    /\ InitSupervisor("none")
    /\ InitArgs({NoCall})
    /\ InitRuns
    /\ InitLoad
    /\ InitRegistry
    /\ InitRaces
    /\ InitWriter

InitSupervisors ==
    /\ InitTail
    /\ InitFold
    /\ \E m \in {"detached", "interactive"} : InitSupervisor(m)
    /\ InitArgs({NoCall})
    /\ InitRuns
    /\ InitLoad
    /\ InitRegistry
    /\ InitRaces
    /\ InitWriter

InitBuilders ==
    /\ InitTail
    /\ InitFold
    /\ InitSupervisor("none")
    /\ InitArgs(Calls)
    /\ InitRuns
    /\ InitLoad
    /\ InitRegistry
    /\ InitRaces
    /\ InitWriter

\* The tailer over a file that is only appended to.
NextTailAppend == TAppend(Bytes) \/ TNewFromStart \/ TPoll \/ TFlush

SpecTailAppend == Init /\ [][NextTailAppend]_vars

\* The tailer over a file that is appended to, truncated and replaced.
NextTail ==
    TAppend(RewriteBytes) \/ TTruncate \/ TReplace \/ TNewFromStart \/ TNewAtEnd \/ TPoll

SpecTail == Init /\ [][NextTail]_vars

\* The folder over agent_message and reasoning items.
NextFoldText == FoldAgentMessage \/ FoldReasoning

SpecFoldText == Init /\ [][NextFoldText]_vars

\* The folder over the items that become tool calls, and error items.
NextFoldTools ==
    \/ FoldCommandExecution
    \/ FoldFileChange
    \/ FoldMcpToolCall
    \/ FoldWebSearch
    \/ FoldTodoList
    \/ FoldError

SpecFoldTools == Init /\ [][NextFoldTools]_vars

\* A run under the detached or the interactive supervisor.
NextSupervisors ==
    \/ TailCodexOutput
    \/ ChildWrites
    \/ ChildExits
    \/ Cancel
    \/ InteractiveCancelled
    \/ InteractiveEof
    \/ InteractiveReadError
    \/ InteractiveRead
    \/ DiskFills
    \/ OpenRunLogFails
    \/ PollFails

SpecSupervisors == InitSupervisors /\ [][NextSupervisors]_vars

\* One call of an argument builder, over every input.
NextBuilders ==
    \/ BuildCodexArgsDetached
    \/ BuildCodexArgsInteractive
    \/ RunCodexPrompt
    \/ PushCodexDetachedModeArgs

SpecBuilders == InitBuilders /\ [][NextBuilders]_vars

\* The run log store under every sequence of its operations.
NextRuns ==
    \/ StartRun
    \/ SetPid
    \/ Complete
    \/ CancelRun
    \/ Crash
    \/ ResumeWriter
    \/ MarkRunningRunCancelled
    \/ RecoverIncompleteRuns
    \/ AppRestarts
    \/ ProcessChanges

SpecRuns == Init /\ [][NextRuns]_vars

\* The store of few runs under every sequence of its operations, then the
\* messages loaded from it.
NextLoad ==
    \/ loaded = None /\ StartRun /\ WithinLoadBound
    \/ loaded = None /\ SetPid
    \/ loaded = None /\ Complete
    \/ loaded = None /\ CancelRun
    \/ loaded = None /\ Crash
    \/ loaded = None /\ ResumeWriter
    \/ loaded = None /\ MarkRunningRunCancelled
    \/ loaded = None /\ RecoverIncompleteRuns
    \/ loaded = None /\ AppRestarts
    \/ loaded = None /\ ProcessChanges
    \/ LoadSessionMessages

SpecLoad == Init /\ [][NextLoad]_vars

\* The registry under runs that start, are cancelled, poll and end.
NextRegistry ==
    \/ RegisterProcess
    \/ CancelProcess
    \/ PollRegistry
    \/ TurnEnds
    \/ UnregisterProcess
    \/ FailsBeforeSpawn

SpecRegistry == Init /\ [][NextRegistry]_vars

\* The run store under its operations, two of them in steps of their own.
\* The liveness of a process is probed within an operation.
NextAtomic ==
    \/ StartRun /\ WithinRaceBound
    \/ SetPid
    \/ Complete
    \/ CancelRun
    \/ Crash
    \/ MarkRunningRunCancelledLoads
    \/ MarkRunningRunCancelledSaves
    \/ RecoverIncompleteRunsLoads
    \/ RecoverIncompleteRunsSaves
    \/ inflight = {} /\ ProcessChanges

SpecAtomic == Init /\ [][NextAtomic]_vars

\* The metadata of one session under every sequence of the operations of its
\* writers.
NextWriter ==
    \/ WriterStartRun
    \/ WriterComplete
    \/ WriterCancel
    \/ WriterCrash
    \/ WriterSetPid

SpecWriter == Init /\ [][NextWriter]_vars
InitDetached ==
    /\ InitTail
    /\ InitFold
    /\ InitSupervisor("detached")
    /\ InitArgs({NoCall})
    /\ InitRuns
    /\ InitLoad
    /\ InitRegistry
    /\ InitRaces
    /\ InitWriter

\* A run under the detached supervisor, whose loop goes on iterating and
\* whose clock goes on running; the child writes few lines.
NextDetached ==
    \/ TailCodexOutput
    \/ WithinFairBound /\ ChildWrites
    \/ ChildExits
    \/ Cancel
    \/ PollFails

SpecDetachedFair ==
    /\ InitDetached
    /\ [][NextDetached]_vars
    /\ WF_vars(TailCodexOutput)
    /\ WF_vars(TailCodexOutputIdle)
====
